---- MODULE Spec2Model ----
(***************************************************************************)
(* async-translate: the concurrency and resilience layer of the two        *)
(* translation backends (src/src/openai/mod.rs, src/src/microsoft/mod.rs). *)
(*                                                                         *)
(* A task is one logical caller of translate_text (OpenAI) or              *)
(* translate_batch (Microsoft).  Every action is the code between two      *)
(* suspension points (.await) of the task's future.  Instants are whole    *)
(* seconds read from one monotonic clock, `now`, which advances by a step  *)
(* or to the instant a sleeper wakes.  A sleep of d seconds (the sleep of  *)
(* wait_for_rate_limit, the one-second pause between two authentication    *)
(* requests) ends at any instant at least d seconds after it began.  The  *)
(* backoff sleeps, each of less than a second for the retry budgets of the *)
(* calls modelled (100 ms doubled at most MaxRetries - 1 times), are       *)
(* recorded with their duration and put no lower bound on the clock.       *)
(***************************************************************************)
EXTENDS Integers, Sequences, FiniteSets, TLC

VARIABLES
    backend,            \* "openai" | "microsoft": which translator the tasks share
    api_keys,           \* OpenAIConfig.api_keys, as the number of keys N
    rpm_limit,          \* OpenAIConfig.rpm_limit
    concurrent_limit,   \* OpenAIConfig / MicrosoftConfig .concurrent_limit
    api_key,            \* MicrosoftConfig.api_key: TRUE when Some(key)
    now,                \* the monotonic clock, in seconds
    current_key_index,  \* OpenAITranslator.current_key_index
    key_trackers,       \* OpenAITranslator.key_trackers: per key, its semaphore's
                        \* free permits, its request_times and who holds their lock
    semaphore,          \* MicrosoftTranslator.semaphore: free permits
    cached_token,       \* MicrosoftTranslator.cached_token
    token_expiry,       \* MicrosoftTranslator.token_expiry
    token_lock,         \* holder of the cached_token mutex (0: free)
    expiry_lock,        \* holder of the token_expiry mutex (0: free)
    task,               \* per task: program counter and the locals of its futures
    translators,        \* TranslationManager.translators: name -> instance
    hist                \* history: what was observed, per task and per governor

vars == << backend, api_keys, rpm_limit, concurrent_limit, api_key, now,
           current_key_index, key_trackers, semaphore, cached_token,
           token_expiry, token_lock, expiry_lock, task, translators, hist >>

config == << backend, api_keys, rpm_limit, concurrent_limit, api_key >>
openai == << current_key_index, key_trackers >>
microsoft == << semaphore, cached_token, token_expiry, token_lock, expiry_lock >>

-----------------------------------------------------------------------------
(* Bounds of the exploration.                                              *)

NumTasks == 2         \* concurrent callers
RetryTasks == 1       \* callers, specification SpecRetry
MaxKeys == 2          \* largest key pool
MaxConcurrent == 2    \* largest concurrent_limit
MaxRpm == 2           \* largest rpm_limit
MaxRetries == 3       \* largest options.max_retries, specification SpecRetry
CursorCalls == 5      \* get_next_key_index calls, specification SpecCursor
AdmitTasks == 5       \* concurrent callers, specification SpecAdmit
MinStatus == 100      \* smallest status of an HttpError, specification SpecError
MaxStatus == 600      \* largest status of an HttpError, specification SpecError
RpmStep == 30         \* seconds between two clock readings, SpecRpm
RpmTicks == 4         \* clock readings, SpecRpm
TokenStep == 240      \* seconds between two clock readings, SpecToken
TokenTicks == 3       \* clock readings, SpecToken
MaxNames == 3         \* translator names, specification SpecManager
MaxAdds == 3          \* add_translator calls, specification SpecManager
MaxCalls == 2         \* translate calls, specification SpecManager

(* Program constants.                                                      *)

WindowSecs == 60          \* Duration::from_secs(60) of the RPM window
BaseDelayMs == 100        \* 100 * 2u64.pow(attempt - 1)
TokenMarginSecs == 60     \* refresh when no more than this remains
TokenLifetimeSecs == 540  \* expiry of a fresh token
AuthAttempts == 3         \* let mut auth_attempts = 3
AuthPauseSecs == 1        \* sleep(Duration::from_secs(1)) of get_auth_token

None == [tag |-> "None"]
Some(v) == [tag |-> "Some", value |-> v]

-----------------------------------------------------------------------------
(* TranslationError (src/src/error.rs).                                    *)

NetworkError == [kind |-> "NetworkError"]
TimeoutError == [kind |-> "TimeoutError"]
HttpError(status) == [kind |-> "HttpError", status |-> status]
AuthenticationError == [kind |-> "AuthenticationError"]
ServiceError == [kind |-> "ServiceError"]
ConfigurationError == [kind |-> "ConfigurationError"]
Other == [kind |-> "Other"]
MaxRetriesExceeded(attempts, errors) ==
    [kind |-> "MaxRetriesExceeded", attempts |-> attempts, errors |-> errors]

is_server_error_open(status) == status >= 500

(* StatusCode::is_server_error *)
is_server_error(status) == status >= 500 /\ status <= 599
is_success(status) == status >= 200 /\ status <= 299

is_retryable_all(e) == TRUE

is_retryable_4xx(e) ==
    CASE e.kind = "NetworkError" -> TRUE
      [] e.kind = "HttpError" -> e.status >= 400
      [] e.kind = "TimeoutError" -> TRUE
      [] OTHER -> FALSE

is_retryable(e) ==
    CASE e.kind = "NetworkError" -> TRUE
      [] e.kind = "HttpError" -> is_server_error(e.status)
      [] e.kind = "TimeoutError" -> TRUE
      [] OTHER -> FALSE

Ok(v) == [tag |-> "Ok", value |-> v]
Err(e) == [tag |-> "Err", error |-> e]
Pending == [tag |-> "Pending"]

(* What the HTTP collaborator can answer to one translation request: a     *)
(* transport failure, a timeout, a status code, and for a success status   *)
(* a body that parses to a translation, to no translation, or not at all.  *)
Statuses == {200, 401, 429, 500, 503}
Transport == {"connect", "timeout"}
Bodies == {"translation", "empty", "malformed"}
Responses ==
    [type : {"transport"}, failure : Transport]
    \cup [type : {"status"}, status : Statuses \ {200}]
    \cup [type : {"status"}, status : {200}, body : Bodies]

(* The answers the specifications with several callers draw from. *)
FewResponses ==
    { [type |-> "status", status |-> 200, body |-> "translation"],
      [type |-> "status", status |-> 503],
      [type |-> "status", status |-> 401] }

(* impl From<reqwest::Error> for TranslationError *)
FromReqwestError(failure) ==
    IF failure = "timeout" THEN TimeoutError ELSE NetworkError

-----------------------------------------------------------------------------
(* The retry loop shared, as duplicated code, by both backends.            *)

Pow2(n) == IF n = 0 THEN 1 ELSE 2 ^ n

BackoffDelayLinear(attempt) == BaseDelayMs * attempt

BackoffDelay(attempt) == BaseDelayMs * Pow2(attempt - 1)

InRangeExclusive(attempt, max_retries) == attempt < max_retries

(* for attempt in 0..=options.max_retries *)
InRange(attempt, max_retries) == attempt <= max_retries

NewTask ==
    [ pc |-> "idle", max_retries |-> 0, attempt |-> 0, errors |-> << >>,
      key_index |-> 0, rl_now |-> 0, wake |-> 0, auth_attempts |-> 0,
      token |-> None, result |-> Pending ]

(* The call returns res: the locals of its futures are dropped. *)
Returned(tk, res) ==
    [NewTask EXCEPT !.pc = "done", !.max_retries = tk.max_retries,
                    !.result = res]

(* The attempt is over: the locals of try_translate_* are dropped. *)
EndAttempt(tk) ==
    [tk EXCEPT !.key_index = 0, !.rl_now = 0, !.wake = 0,
               !.auth_attempts = 0, !.token = None]

LoopHeadNoSleep(tk, try, backoff) ==
    IF InRange(tk.attempt, tk.max_retries)
    THEN [tk EXCEPT !.pc = try]
    ELSE Returned(tk, Err(MaxRetriesExceeded(tk.max_retries + 1, tk.errors)))

(* The head of the loop for the next value of attempt: the range test,    *)
(* then the sleep that precedes every attempt but the first.               *)
LoopHead(tk, try, backoff) ==
    IF InRange(tk.attempt, tk.max_retries)
    THEN [tk EXCEPT !.pc = IF tk.attempt > 0 THEN backoff ELSE try]
    ELSE Returned(tk, Err(MaxRetriesExceeded(tk.max_retries + 1, tk.errors)))

AfterAttemptKeepGoing(tk, res, try, backoff) ==
    IF res.tag = "Ok"
    THEN Returned(tk, res)
    ELSE LoopHead([EndAttempt(tk) EXCEPT !.errors = Append(@, res.error),
                                         !.attempt = @ + 1], try, backoff)

(* The match on an attempt's result: Ok returns, a retryable error is      *)
(* pushed and the loop goes on, any other error returns.                   *)
AfterAttempt(tk, res, try, backoff) ==
    IF res.tag = "Ok"
    THEN Returned(tk, res)
    ELSE IF is_retryable(res.error)
         THEN LoopHead([EndAttempt(tk) EXCEPT !.errors = Append(@, res.error),
                                              !.attempt = @ + 1], try, backoff)
         ELSE Returned(tk, res)

(* The delays slept so far, once the task has become tk. *)
Slept(tk, delays) ==
    IF tk.pc \in {"o_backoff", "m_backoff"}
    THEN Append(delays, BackoffDelay(tk.attempt))
    ELSE delays

(* One attempt as the history records it: the answer to its translation   *)
(* request (NoResponse when it ended before one came) and its result.      *)
NoResponse == [type |-> "none"]
Unauthorized == [type |-> "status", status |-> 401]
Attempt(response, result) == [response |-> response, result |-> result]

(* No refresh under way; a refresh that has sent its first request. *)
NoRefresh == [requests |-> 0, pauses |-> << >>]
FirstRequest == [requests |-> 1, pauses |-> << >>]

(* join_all over T futures: the output of each future that has completed, *)
(* the order in which it saw them complete, and what translate_batch       *)
(* returned.                                                               *)
NewBatch(T) ==
    [ outputs |-> [i \in 1..T |-> Pending], order |-> << >>,
      result |-> Pending ]

(* TranslationManager::new: HashMap::new(). *)
NoTranslators == << >>

(* A call of translate, translate_langid or translate_with_langid on the   *)
(* manager that was not made: the method, the name asked for, the instance *)
(* it invoked (0: none), what that instance returned to it, what it        *)
(* returned, and where it is.                                              *)
NoCall ==
    [ method |-> "none", asked |-> 0, instance |-> 0, returned |-> Pending,
      answer |-> Pending, at |-> "new" ]

(* What was done with the manager: the add_translator calls, the names     *)
(* they gave and in which order, the calls of its translate methods, the   *)
(* instances these invoked in the order they were invoked, and the answer  *)
(* of the call that returned last.                                         *)
NewManagerLog ==
    [ adds |-> 0, added |-> {}, order |-> << >>, calls |-> 0,
      invoked |-> << >>, call |-> [c \in 1..MaxCalls |-> NoCall],
      answer |-> Pending ]

(* A call of translate_batch_to_strings: the number of texts it was given  *)
(* and what it returned.                                                   *)
NewStrings == [ texts |-> 0, output |-> Pending ]

(* The retry loop as arithmetic: the max_retries of the options, the       *)
(* value of `attempt`, the delay computed for it and the one before, and   *)
(* where the loop is.                                                      *)
NewBackoff ==
    [ max_retries |-> 3, attempt |-> 0, delay |-> Pending,
      previous |-> Pending, at |-> "options" ]

NewHist(T, N) ==
    [ tried |-> [t \in 1..T |-> << >>],   \* every attempt of the call, in order
      delays |-> [t \in 1..T |-> << >>],  \* milliseconds slept before retries
      granted |-> [k \in 1..N |-> << >>], \* instants wait_for_rate_limit returned
      key_log |-> << >>,                  \* indices get_next_key_index returned
      issued |-> 0,                       \* tokens the endpoint has issued
      fetched_at |-> 0,                   \* instant the last token was stored
      last_token |-> None,                \* last token get_auth_token returned,
                                          \* None again once a clear has begun
      invalidated |-> FALSE,              \* a clear completed and no token
                                          \* has been stored since
      behind |-> [t \in 1..T |-> None],   \* token another caller stored while
                                          \* this one waited in get_auth_token
      auth |-> [t \in 1..T |-> NoRefresh], \* the refresh the call is making:
                                          \* requests sent, seconds paused
      batch |-> NewBatch(T),              \* the join_all of translate_batch
      manager |-> NewManagerLog,          \* the calls made on the manager
      strings |-> NewStrings,             \* translate_batch_to_strings
      backoff |-> NewBackoff ]            \* the delays as u64 arithmetic

-----------------------------------------------------------------------------
(* OpenAITranslator (src/src/openai/mod.rs).                               *)

NewKeyTrackerWindowed(limit, rpm) ==
    [ semaphore |-> limit, request_times |-> Some(<< >>), times_lock |-> 0 ]

(* OpenAITranslator::new: one tracker per key. *)
NewKeyTracker(limit, rpm) ==
    [ semaphore |-> limit,
      request_times |-> IF rpm > 0 THEN Some(<< >>) ELSE None,
      times_lock |-> 0 ]

NextKeyIndexNoWrap(index, n) == IF index + 1 < n THEN index + 1 ELSE index

(* get_next_key_index: the cursor after one more call, modulo the pool. *)
NextKeyIndex(index, n) == (index + 1) % n

PoolEmptyBelowTwo(n) == n <= 1

(* self.config.api_keys.is_empty() *)
PoolEmpty(n) == n = 0

(* try_translate_single up to semaphore.acquire(): the empty-pool check    *)
(* and get_next_key_index, whose lock is held over no suspension point.    *)
O_Try(t, tk) ==
    IF tk.pc # "o_try"
    THEN /\ task' = [task EXCEPT ![t] = tk]
         /\ hist' = [hist EXCEPT !.delays[t] = Slept(tk, @)]
         /\ UNCHANGED current_key_index
    ELSE IF PoolEmpty(api_keys)
    THEN LET after == AfterAttempt(tk, Err(ConfigurationError),
                                   "o_try", "o_backoff")
         IN /\ task' = [task EXCEPT ![t] = after]
            /\ hist' = [hist EXCEPT
                  !.tried[t] = Append(@, Attempt(NoResponse,
                                                 Err(ConfigurationError))),
                  !.delays[t] = Slept(after, @)]
            /\ UNCHANGED current_key_index
    ELSE /\ task' = [task EXCEPT ![t] = [tk EXCEPT
                          !.key_index = current_key_index,
                          !.pc = "o_acquire"]]
         /\ current_key_index' = NextKeyIndex(current_key_index, api_keys)
         /\ hist' = [hist EXCEPT !.key_log = Append(@, current_key_index)]

(* translate_text -> translate_text_with_retry: the call runs to the       *)
(* first suspension point of its first attempt.                            *)
O_Call(t, R) ==
    /\ backend = "openai"
    /\ task[t].pc = "idle"
    /\ \E mr \in R :
          O_Try(t, LoopHead([NewTask EXCEPT !.max_retries = mr],
                            "o_try", "o_backoff"))
    /\ UNCHANGED << translators, config, now, key_trackers, microsoft >>

(* sleep(delay).await is over: the next attempt begins. *)
O_BackoffDone(t) ==
    /\ task[t].pc = "o_backoff"
    /\ O_Try(t, [task[t] EXCEPT !.pc = "o_try"])
    /\ UNCHANGED << translators, config, now, key_trackers, microsoft >>

LockFreeAlways(holder) == TRUE

(* tokio::sync::Mutex::lock resolves only when nobody holds the mutex. *)
LockFree(holder) == holder = 0

AcquirableButOne(permits) == permits > 1

AcquirableAlways(permits) == TRUE

(* Semaphore::acquire resolves only when a permit is free. *)
Acquirable(permits) == permits > 0

TrackerIndexShared(key_index) == 1

(* &self.key_trackers[key_index]: the tracker of the selected key, as a    *)
(* position of the sequence key_trackers.                                  *)
TrackerIndex(key_index) == key_index + 1

Tracker(t) == key_trackers[TrackerIndex(task[t].key_index)]

O_Acquire(t) ==
    /\ task[t].pc = "o_acquire"
    /\ Acquirable(Tracker(t).semaphore)
    /\ key_trackers' = [key_trackers EXCEPT
                          ![TrackerIndex(task[t].key_index)].semaphore = @ - 1]
    /\ task' = [task EXCEPT ![t].pc = "o_ratelimit"]
    /\ UNCHANGED << translators, config, now, current_key_index, microsoft, hist >>

RECURSIVE Retain(_, _)
(* times.retain(|&time| now.duration_since(time) < Duration::from_secs(60)) *)
Retain(times, at) ==
    IF times = << >> THEN << >>
    ELSE IF at - Head(times) < WindowSecs
         THEN << Head(times) >> \o Retain(Tail(times), at)
         ELSE Retain(Tail(times), at)

MustWaitAbove(times, at) ==
    /\ rpm_limit > 0
    /\ Len(times) > rpm_limit
    /\ times # << >>
    /\ at - Head(times) < WindowSecs

(* The test of lines 195-198: whether the caller sleeps. *)
MustWait(times, at) ==
    /\ rpm_limit > 0
    /\ Len(times) >= rpm_limit
    /\ times # << >>
    /\ at - Head(times) < WindowSecs

(* wait_for_rate_limit up to its sleep, or to its end when it does not     *)
(* sleep: lock, Instant::now(), retain, the test, push, unlock.            *)
O_RateLimit(t) ==
    /\ task[t].pc = "o_ratelimit"
    /\ LET k == TrackerIndex(task[t].key_index)
           tr == key_trackers[k]
       IN IF tr.request_times = None
          THEN /\ task' = [task EXCEPT ![t].pc = "o_send"]
               /\ UNCHANGED << key_trackers, hist >>
          ELSE /\ LockFree(tr.times_lock)
               /\ LET times == Retain(tr.request_times.value, now)
                  IN IF MustWait(times, now)
                     THEN /\ key_trackers' = [key_trackers EXCEPT
                                  ![k].request_times = Some(times),
                                  ![k].times_lock = t]
                          /\ task' = [task EXCEPT
                                  ![t].rl_now = now,
                                  ![t].wake = now + (WindowSecs - (now - Head(times))),
                                  ![t].pc = "o_rl_sleep"]
                          /\ UNCHANGED hist
                     ELSE /\ key_trackers' = [key_trackers EXCEPT
                                  ![k].request_times = Some(Append(times, now))]
                          /\ task' = [task EXCEPT ![t].pc = "o_send"]
                          /\ hist' = [hist EXCEPT
                                  !.granted[k] = Append(@, now)]
    /\ UNCHANGED << translators, config, now, current_key_index, microsoft >>

(* The sleep of line 199 is over: times.push(now) with the instant read    *)
(* before the sleep, the lock is dropped, wait_for_rate_limit returns.     *)
O_RateLimitWake(t) ==
    /\ task[t].pc = "o_rl_sleep"
    /\ now >= task[t].wake
    /\ LET k == TrackerIndex(task[t].key_index)
       IN /\ key_trackers' = [key_trackers EXCEPT
                 ![k].request_times = Some(Append(@.value, task[t].rl_now)),
                 ![k].times_lock = 0]
          /\ hist' = [hist EXCEPT !.granted[k] = Append(@, now)]
    /\ task' = [task EXCEPT ![t].rl_now = 0, ![t].wake = 0, ![t].pc = "o_send"]
    /\ UNCHANGED << translators, config, now, current_key_index, microsoft >>

(* choices[0].message.content of a parsed body: the translation the        *)
(* endpoint wrote, "translation" where the answer does not say for which   *)
(* text it is.                                                             *)
Content(r) == IF "content" \in DOMAIN r THEN r.content ELSE "translation"

(* Lines 310-335: what try_translate_single makes of the response. *)
O_Result(r) ==
    IF r.type = "transport" THEN Err(FromReqwestError(r.failure))
    ELSE IF ~is_success(r.status) THEN Err(HttpError(r.status))
    ELSE IF r.body = "malformed" THEN Err(FromReqwestError("decode"))
    ELSE IF r.body = "empty" THEN Err(ServiceError)
    ELSE Ok(Content(r))

(* The response arrives: the attempt ends, its permit is dropped, and the  *)
(* retry loop matches on the result.                                       *)
O_Response(t, r) ==
    /\ task[t].pc = "o_send"
    /\ key_trackers' = [key_trackers EXCEPT
                          ![TrackerIndex(task[t].key_index)].semaphore = @ + 1]
    /\ LET after == AfterAttempt(task[t], O_Result(r), "o_try", "o_backoff")
       IN /\ task' = [task EXCEPT ![t] = after]
          /\ hist' = [hist EXCEPT
                !.tried[t] = Append(@, Attempt(r, O_Result(r))),
                !.delays[t] = Slept(after, @)]
    /\ UNCHANGED << translators, config, now, current_key_index, microsoft >>

(* The clock is read `step` seconds later, `ticks` times at most. *)
Tick(step, ticks) ==
    /\ now < ticks * step
    /\ now' = now + step
    /\ UNCHANGED << translators, config, openai, microsoft, task, hist >>

(* The calls asleep in wait_for_rate_limit or in the pause of              *)
(* get_auth_token whose sleep is not over.                                 *)
Sleepers ==
    {t \in DOMAIN task :
        /\ task[t].pc \in {"o_rl_sleep", "m_auth_sleep"}
        /\ now < task[t].wake}

(* Time passes until the sleep that ends first is over. *)
Elapse ==
    /\ Sleepers # {}
    /\ \E t \in Sleepers :
          /\ \A u \in Sleepers : task[t].wake <= task[u].wake
          /\ now' = task[t].wake
    /\ UNCHANGED << translators, config, openai, microsoft, task, hist >>

NextOpenAI(T, R, Resp) ==
    \E t \in 1..T :
        \/ O_Call(t, R)
        \/ O_BackoffDone(t)
        \/ O_Acquire(t)
        \/ O_RateLimit(t)
        \/ O_RateLimitWake(t)
        \/ \E r \in Resp : O_Response(t, r)

InitOpenAI(T, Keys, Rpms, Limits) ==
    /\ backend = "openai"
    /\ api_keys \in Keys
    /\ rpm_limit \in Rpms
    /\ concurrent_limit \in Limits
    /\ api_key = FALSE
    /\ now = 0
    /\ current_key_index = 0
    /\ key_trackers = [k \in 1..api_keys |->
                          NewKeyTracker(concurrent_limit, rpm_limit)]
    /\ semaphore = 0
    /\ cached_token = None
    /\ token_expiry = None
    /\ token_lock = 0
    /\ expiry_lock = 0
    /\ task = [t \in 1..T |-> NewTask]
    /\ translators = NoTranslators
    /\ hist = NewHist(T, api_keys)

-----------------------------------------------------------------------------
(* MicrosoftTranslator (src/src/microsoft/mod.rs).                         *)

(* What the authentication endpoint can answer. *)
AuthResponses ==
    [type : {"transport"}, failure : Transport]
    \cup [type : {"status"}, status : {503}]
    \cup [type : {"status"}, status : {200}, body : {"token", "unreadable"}]

AuthTransportErrorFrom(failure) == FromReqwestError(failure)

(* Err(e) of the last authentication request: NetworkError(e), whatever    *)
(* the failure of the transport was.                                       *)
AuthTransportError(failure) == NetworkError

FewAuthResponses ==
    { [type |-> "status", status |-> 200, body |-> "token"],
      [type |-> "status", status |-> 503] }

(* The task has become tk, at semaphore.acquire() or returned. *)
M_Becomes(t, tk, attempts) ==
    /\ task' = [task EXCEPT ![t] = tk]
    /\ hist' = [hist EXCEPT !.tried[t] = attempts, !.delays[t] = Slept(tk, @),
                            !.auth[t] = NoRefresh]

(* translate_batch: the call runs to the first suspension point of its     *)
(* first attempt, semaphore.acquire().                                     *)
M_Call(t, R) ==
    /\ backend = "microsoft"
    /\ task[t].pc = "idle"
    /\ \E mr \in R :
          M_Becomes(t, LoopHead([NewTask EXCEPT !.max_retries = mr],
                                "m_try", "m_backoff"), << >>)
    /\ UNCHANGED << translators, config, now, openai, microsoft >>

(* sleep(delay).await is over: the next attempt begins. *)
M_BackoffDone(t) ==
    /\ task[t].pc = "m_backoff"
    /\ task' = [task EXCEPT ![t].pc = "m_try"]
    /\ UNCHANGED << translators, config, now, openai, microsoft, hist >>

(* The attempt ends with res after the answer r: the retry loop matches.   *)
M_AttemptEnds(t, r, res) ==
    M_Becomes(t, AfterAttempt(task[t], res, "m_try", "m_backoff"),
              Append(hist.tried[t], Attempt(r, res)))

saturating_duration_since(later, earlier) ==
    IF later > earlier THEN later - earlier ELSE 0

TokenFreshInverted(token, expiry, at) ==
    /\ token # None
    /\ expiry # None
    /\ saturating_duration_since(expiry.value, at) < TokenMarginSecs

TokenFreshAtMargin(token, expiry, at) ==
    /\ token # None
    /\ expiry # None
    /\ saturating_duration_since(expiry.value, at) >= TokenMarginSecs

(* Lines 152-156: the cached token is returned only if both are present    *)
(* and more than the margin remains.                                       *)
TokenFresh(token, expiry, at) ==
    /\ token # None
    /\ expiry # None
    /\ saturating_duration_since(expiry.value, at) > TokenMarginSecs

NewExpiryLong(at) == at + TokenLifetimeSecs + TokenMarginSecs

(* Instant::now() + Duration::from_secs(540) *)
NewExpiry(at) == at + TokenLifetimeSecs

HasApiKeyNever(key) == FALSE

(* if let Some(api_key) = &self.config.api_key *)
HasApiKey(key) == key

(* try_translate_batch: the permit is acquired and get_auth_token is       *)
(* called, which returns the api_key at once when one is configured.       *)
M_Acquire(t) ==
    /\ task[t].pc = "m_try"
    /\ Acquirable(semaphore)
    /\ semaphore' = semaphore - 1
    /\ IF HasApiKey(api_key)
       THEN /\ task' = [task EXCEPT ![t].token = Some("api_key"),
                                    ![t].pc = "m_send"]
            /\ UNCHANGED hist
       ELSE /\ task' = [task EXCEPT ![t].pc = "m_token_lock"]
            /\ hist' = [hist EXCEPT !.behind[t] = None]
    /\ UNCHANGED << translators, config, now, openai, cached_token, token_expiry,
                    token_lock, expiry_lock >>

(* self.cached_token.lock().await *)
M_TokenLock(t) ==
    /\ task[t].pc = "m_token_lock"
    /\ LockFree(token_lock)
    /\ token_lock' = t
    /\ task' = [task EXCEPT ![t].pc = "m_expiry_lock"]
    /\ UNCHANGED << translators, config, now, openai, semaphore, cached_token,
                    token_expiry, expiry_lock, hist >>

(* self.token_expiry.lock().await, then the test of the cache: the cached  *)
(* token is returned, or the first authentication request is sent.         *)
M_ExpiryLock(t) ==
    /\ task[t].pc = "m_expiry_lock"
    /\ LockFree(expiry_lock)
    /\ IF TokenFresh(cached_token, token_expiry, now)
       THEN /\ task' = [task EXCEPT ![t].token = cached_token,
                                    ![t].pc = "m_send"]
            /\ token_lock' = 0
            /\ expiry_lock' = 0
            /\ hist' = [hist EXCEPT !.last_token = cached_token]
       ELSE /\ task' = [task EXCEPT ![t].auth_attempts = AuthAttempts - 1,
                                    ![t].pc = "m_auth"]
            /\ expiry_lock' = t
            /\ hist' = [hist EXCEPT !.auth[t] = FirstRequest]
            /\ UNCHANGED token_lock
    /\ UNCHANGED << translators, config, now, openai, semaphore, cached_token, token_expiry >>

AuthPauseGrowing(left) == AuthPauseSecs * (AuthAttempts - left)

(* The pause before the next authentication request, `left` requests       *)
(* remaining: sleep(Duration::from_secs(1)).                               *)
AuthPause(left) == AuthPauseSecs

(* The answer to an authentication request (lines 168-190). *)
M_AuthResponse(t, a) ==
    /\ task[t].pc = "m_auth"
    /\ IF a.type = "status" /\ is_success(a.status) /\ a.body = "token"
       THEN \* the token is cached with its expiry and returned
            /\ cached_token' = Some(hist.issued + 1)
            /\ token_expiry' = Some(NewExpiry(now))
            /\ token_lock' = 0
            /\ expiry_lock' = 0
            /\ task' = [task EXCEPT ![t].token = Some(hist.issued + 1),
                                    ![t].pc = "m_send"]
            /\ hist' = [hist EXCEPT
                  !.issued = @ + 1,
                  !.fetched_at = now,
                  !.last_token = Some(hist.issued + 1),
                  !.invalidated = FALSE,
                  !.auth[t] = NoRefresh,
                  !.behind = [u \in DOMAIN @ |->
                                IF task[u].pc \in {"m_token_lock", "m_expiry_lock"}
                                THEN Some(hist.issued + 1) ELSE @[u]]]
            /\ UNCHANGED semaphore
       ELSE IF a.type = "status" /\ is_success(a.status)
       THEN \* response.text() failed: get_auth_token returns the error
            /\ token_lock' = 0
            /\ expiry_lock' = 0
            /\ semaphore' = semaphore + 1
            /\ M_AttemptEnds(t, NoResponse, Err(AuthenticationError))
            /\ UNCHANGED << cached_token, token_expiry >>
       ELSE IF task[t].auth_attempts <= 0
       THEN \* the last authentication attempt failed
            LET e == IF a.type = "status" THEN AuthenticationError
                                          ELSE AuthTransportError(a.failure)
            IN /\ token_lock' = 0
               /\ expiry_lock' = 0
               /\ semaphore' = semaphore + 1
               /\ M_AttemptEnds(t, NoResponse, Err(e))
               /\ UNCHANGED << cached_token, token_expiry >>
       ELSE \* sleep(Duration::from_secs(1)).await
            /\ task' = [task EXCEPT
                  ![t].wake = now + AuthPause(task[t].auth_attempts),
                  ![t].pc = "m_auth_sleep"]
            /\ hist' = [hist EXCEPT
                  !.auth[t].pauses = Append(@, AuthPause(task[t].auth_attempts))]
            /\ UNCHANGED << semaphore, cached_token, token_expiry,
                            token_lock, expiry_lock >>
    /\ UNCHANGED << translators, config, now, openai >>

(* The pause is over, the clock has reached the instant it ends: the next  *)
(* authentication request is sent.                                         *)
M_AuthSleepDone(t) ==
    /\ task[t].pc = "m_auth_sleep"
    /\ now >= task[t].wake
    /\ task' = [task EXCEPT ![t].auth_attempts = @ - 1, ![t].wake = 0,
                            ![t].pc = "m_auth"]
    /\ hist' = [hist EXCEPT !.auth[t].requests = @ + 1]
    /\ UNCHANGED << translators, config, now, openai, microsoft >>

M_ResultLenient(r) ==
    IF r.type = "transport" THEN Err(FromReqwestError(r.failure))
    ELSE IF r.status = 429 THEN Ok("partial")
    ELSE IF ~is_success(r.status) THEN Err(HttpError(r.status))
    ELSE IF r.body = "malformed" THEN Err(FromReqwestError("decode"))
    ELSE Ok(r.body)

(* response.json(): the Vec<MicrosoftTranslation> of a body that parses,   *)
(* item by item where the answer says what its items are.                  *)
Parsed(r) == IF "items" \in DOMAIN r THEN r.items ELSE r.body

(* Lines 314-355: what try_translate_batch makes of a response other than  *)
(* 401.                                                                    *)
M_Result(r) ==
    IF r.type = "transport" THEN Err(FromReqwestError(r.failure))
    ELSE IF ~is_success(r.status) THEN Err(HttpError(r.status))
    ELSE IF r.body = "malformed" THEN Err(FromReqwestError("decode"))
    ELSE Ok(Parsed(r))

(* The response arrives.  On 401 clear_cached_token is awaited before the  *)
(* attempt returns; otherwise the attempt ends and its permit is dropped.  *)
M_Response(t, r) ==
    /\ task[t].pc = "m_send"
    /\ IF r.type = "status" /\ r.status = 401
       THEN /\ task' = [task EXCEPT ![t].pc = "m_clear_token"]
            /\ UNCHANGED << semaphore, hist >>
       ELSE /\ semaphore' = semaphore + 1
            /\ M_AttemptEnds(t, r, M_Result(r))
    /\ UNCHANGED << translators, config, now, openai, cached_token, token_expiry,
                    token_lock, expiry_lock >>

ClearedKeep(old) == old

(* What clear_cached_token assigns to a slot of the cache. *)
Cleared(old) == None

(* *self.cached_token.lock().await = None *)
M_ClearToken(t) ==
    /\ task[t].pc = "m_clear_token"
    /\ LockFree(token_lock)
    /\ cached_token' = Cleared(cached_token)
    /\ task' = [task EXCEPT ![t].pc = "m_clear_expiry"]
    /\ hist' = [hist EXCEPT !.last_token = None,
                            !.behind = [u \in DOMAIN @ |-> None]]
    /\ UNCHANGED << translators, config, now, openai, semaphore, token_expiry, token_lock,
                    expiry_lock >>

(* *self.token_expiry.lock().await = None; then the attempt returns        *)
(* HttpError with status 401 and its permit is dropped.                    *)
M_ClearExpiry(t) ==
    /\ task[t].pc = "m_clear_expiry"
    /\ LockFree(expiry_lock)
    /\ token_expiry' = Cleared(token_expiry)
    /\ semaphore' = semaphore + 1
    /\ LET after == AfterAttempt(task[t], Err(HttpError(401)),
                                 "m_try", "m_backoff")
       IN /\ task' = [task EXCEPT ![t] = after]
          /\ hist' = [hist EXCEPT
                !.invalidated = TRUE,
                !.last_token = None,
                !.behind = [u \in DOMAIN @ |-> None],
                !.tried[t] = Append(@, Attempt(Unauthorized,
                                               Err(HttpError(401)))),
                !.delays[t] = Slept(after, @)]
    /\ UNCHANGED << translators, config, now, openai, cached_token, token_lock, expiry_lock >>

NextMicrosoft(T, R, Resp, Auth) ==
    \E t \in 1..T :
        \/ M_Call(t, R)
        \/ M_BackoffDone(t)
        \/ M_Acquire(t)
        \/ M_TokenLock(t)
        \/ M_ExpiryLock(t)
        \/ \E a \in Auth : M_AuthResponse(t, a)
        \/ M_AuthSleepDone(t)
        \/ \E r \in Resp : M_Response(t, r)
        \/ M_ClearToken(t)
        \/ M_ClearExpiry(t)

InitMicrosoft(T, Limits, ApiKey) ==
    /\ backend = "microsoft"
    /\ api_keys = 0
    /\ rpm_limit = 0
    /\ concurrent_limit \in Limits
    /\ api_key \in ApiKey
    /\ now = 0
    /\ current_key_index = 0
    /\ key_trackers = << >>
    /\ semaphore = concurrent_limit
    /\ cached_token = None
    /\ token_expiry = None
    /\ token_lock = 0
    /\ expiry_lock = 0
    /\ task = [t \in 1..T |-> NewTask]
    /\ translators = NoTranslators
    /\ hist = NewHist(T, 0)

-----------------------------------------------------------------------------
(* Cancellation: the caller drops the future of a call that is suspended   *)
(* at an .await.  The locals of the future are dropped with it: the        *)
(* SemaphorePermit bound to _permit and the MutexGuards it holds.          *)

DroppedPermitLeak(permits) == permits

(* Drop of a SemaphorePermit: the permit goes back to its semaphore. *)
DroppedPermit(permits) == permits + 1

(* Drop of a MutexGuard held by task t. *)
DroppedGuard(holder, t) == IF holder = t THEN 0 ELSE holder

(* The task after the drop of its future at the point `at`. *)
Dropped(tk, at) ==
    [NewTask EXCEPT !.pc = "dropped", !.max_retries = tk.max_retries,
                    !.result = [tag |-> "Dropped", at |-> at]]

(* translate_text dropped at sleep, acquire, the request_times lock, the   *)
(* rate-limit sleep or the HTTP request.                                   *)
O_Cancel(t) ==
    /\ task[t].pc \in {"o_backoff", "o_acquire", "o_ratelimit", "o_rl_sleep",
                       "o_send"}
    /\ key_trackers' =
          IF task[t].pc \in {"o_ratelimit", "o_rl_sleep", "o_send"}
          THEN [key_trackers EXCEPT
            ![TrackerIndex(task[t].key_index)].semaphore = DroppedPermit(@),
            ![TrackerIndex(task[t].key_index)].times_lock = DroppedGuard(@, t)]
          ELSE key_trackers
    /\ task' = [task EXCEPT ![t] = Dropped(@, @.pc)]
    /\ UNCHANGED << translators, config, now, current_key_index, microsoft, hist >>

(* translate_batch dropped at sleep, acquire, either cache lock, the       *)
(* authentication request or its pause, the HTTP request, or either lock   *)
(* of clear_cached_token.                                                  *)
M_Cancel(t) ==
    /\ task[t].pc \in {"m_backoff", "m_try", "m_token_lock", "m_expiry_lock",
                       "m_auth", "m_auth_sleep", "m_send", "m_clear_token",
                       "m_clear_expiry"}
    /\ semaphore' = IF task[t].pc \in {"m_backoff", "m_try"}
                    THEN semaphore
                    ELSE DroppedPermit(semaphore)
    /\ token_lock' = DroppedGuard(token_lock, t)
    /\ expiry_lock' = DroppedGuard(expiry_lock, t)
    /\ task' = [task EXCEPT ![t] = Dropped(@, @.pc)]
    /\ UNCHANGED << translators, config, now, openai, cached_token, token_expiry, hist >>

-----------------------------------------------------------------------------
(* get_next_key_index at the granularity of its statements: the lock, the  *)
(* read of the cursor, the assignment.  The guard lives in the caller's    *)
(* future, so the mutex is held by the task that is between the lock and   *)
(* the return.                                                             *)

(* The task holding the current_key_index mutex (0: free). *)
IndexLockHolder ==
    IF \E u \in DOMAIN task : task[u].pc \in {"k_read", "k_advance"}
    THEN CHOOSE u \in DOMAIN task : task[u].pc \in {"k_read", "k_advance"}
    ELSE 0

(* A caller enters get_next_key_index and reaches lock().await. *)
K_Call(t, calls) ==
    /\ backend = "openai"
    /\ api_keys > 0
    /\ task[t].pc = "idle"
    /\ Len(hist.key_log) < calls
    /\ task' = [task EXCEPT ![t].pc = "k_lock"]
    /\ UNCHANGED << translators, config, now, openai, microsoft, hist >>

(* self.current_key_index.lock().await *)
K_Lock(t) ==
    /\ task[t].pc = "k_lock"
    /\ LockFree(IndexLockHolder)
    /\ task' = [task EXCEPT ![t].pc = "k_read"]
    /\ UNCHANGED << translators, config, now, openai, microsoft, hist >>

(* let current = *index; *)
K_Read(t) ==
    /\ task[t].pc = "k_read"
    /\ task' = [task EXCEPT ![t].key_index = current_key_index,
                            ![t].pc = "k_advance"]
    /\ UNCHANGED << translators, config, now, openai, microsoft, hist >>

(* The assignment to *index, then current is returned and the guard is     *)
(* dropped.                                                                *)
K_Advance(t) ==
    /\ task[t].pc = "k_advance"
    /\ current_key_index' = NextKeyIndex(current_key_index, api_keys)
    /\ hist' = [hist EXCEPT !.key_log = Append(@, task[t].key_index)]
    /\ task' = [task EXCEPT ![t] = NewTask]
    /\ UNCHANGED << translators, config, now, key_trackers, microsoft >>

-----------------------------------------------------------------------------
(* Both backends under callers that contend for the permits. *)
Init ==
    \/ InitOpenAI(NumTasks, {MaxKeys}, {1}, 1..MaxConcurrent)
    \/ InitMicrosoft(NumTasks, 1..MaxConcurrent, {FALSE})
Next ==
    \/ NextOpenAI(NumTasks, {1}, FewResponses)
    \/ NextMicrosoft(NumTasks, {1}, FewResponses, FewAuthResponses)
    \/ Tick(WindowSecs, 1)
    \/ Elapse
Spec == Init /\ [][Next]_vars

(* The retry loop of one caller under every answer, both backends. *)
InitRetry ==
    \/ InitOpenAI(RetryTasks, 0..MaxKeys, {0, 1}, {1})
    \/ InitMicrosoft(RetryTasks, {1}, BOOLEAN)
NextRetry ==
    \/ NextOpenAI(RetryTasks, 0..MaxRetries, Responses)
    \/ NextMicrosoft(RetryTasks, 0..MaxRetries, Responses, AuthResponses)
    \/ Tick(WindowSecs, 1)
    \/ Elapse
SpecRetry == InitRetry /\ [][NextRetry]_vars

(* The token cache under concurrent callers, over the lifetime of a        *)
(* token.  The callers pass max_retries = 0, so no backoff occurs, and the *)
(* translation endpoint answers with a translation or with 401.            *)
InitToken == InitMicrosoft(NumTasks, {MaxConcurrent}, {FALSE})
TokenResponses ==
    { [type |-> "status", status |-> 200, body |-> "translation"],
      [type |-> "status", status |-> 401] }
NextToken ==
    \/ \E t \in 1..NumTasks :
          \/ M_Call(t, {0})
          \/ M_Acquire(t)
          \/ M_TokenLock(t)
          \/ M_ExpiryLock(t)
          \/ \E a \in FewAuthResponses : M_AuthResponse(t, a)
          \/ M_AuthSleepDone(t)
          \/ \E r \in TokenResponses : M_Response(t, r)
          \/ M_ClearToken(t)
          \/ M_ClearExpiry(t)
    \/ Tick(TokenStep, TokenTicks)
    \/ Elapse
SpecToken == InitToken /\ [][NextToken]_vars

(* The key cursor under concurrent callers of get_next_key_index. *)
InitCursor == InitOpenAI(NumTasks, 1..MaxKeys, {0}, {1})
NextCursor ==
    \E t \in 1..NumTasks :
        \/ K_Call(t, CursorCalls)
        \/ K_Lock(t)
        \/ K_Read(t)
        \/ K_Advance(t)
SpecCursor == InitCursor /\ [][NextCursor]_vars

(* Both backends under callers that may drop their call at any suspension  *)
(* point; one key with an RPM limit of one.                                *)
InitCancel ==
    \/ InitOpenAI(NumTasks, {1}, {1}, 1..MaxConcurrent)
    \/ InitMicrosoft(NumTasks, 1..MaxConcurrent, {FALSE})
NextCancel ==
    \/ NextOpenAI(NumTasks, {1}, FewResponses)
    \/ NextMicrosoft(NumTasks, {1}, FewResponses, FewAuthResponses)
    \/ \E t \in 1..NumTasks : O_Cancel(t) \/ M_Cancel(t)
    \/ Tick(WindowSecs, 1)
    \/ Elapse
SpecCancel == InitCancel /\ [][NextCancel]_vars

(* Admission alone: more callers than permits on one governor, no RPM      *)
(* limit, no retries (max_retries = 0), a static Microsoft api_key; the    *)
(* request is answered with a translation or with 503.                     *)
AdmitResponses ==
    { [type |-> "status", status |-> 200, body |-> "translation"],
      [type |-> "status", status |-> 503] }
InitAdmit ==
    \/ InitOpenAI(AdmitTasks, {1}, {0}, {MaxConcurrent})
    \/ InitMicrosoft(AdmitTasks, {MaxConcurrent}, {TRUE})
NextAdmit ==
    \E t \in 1..AdmitTasks :
        \/ O_Call(t, {0})
        \/ O_Acquire(t)
        \/ O_RateLimit(t)
        \/ \E r \in AdmitResponses : O_Response(t, r)
        \/ M_Call(t, {0})
        \/ M_Acquire(t)
        \/ \E r \in AdmitResponses : M_Response(t, r)
SpecAdmit == InitAdmit /\ [][NextAdmit]_vars

(* The classification of errors: the single attempt of a call with         *)
(* max_retries = 0 fails with any value of TranslationError, and the retry *)
(* loop matches on it.                                                     *)
ErrorValues ==
    { NetworkError, TimeoutError, AuthenticationError, ServiceError,
      ConfigurationError, Other }
    \cup { HttpError(s) : s \in MinStatus..MaxStatus }
    \cup { MaxRetriesExceeded(n, es) :
             n \in 1..2, es \in { << >>, << NetworkError >>,
                                  << HttpError(500), TimeoutError >> } }

(* try_translate_single returns Err(e): its permit is dropped and the      *)
(* loop of translate_text_with_retry matches on the error.                 *)
E_AttemptFails(t, e) ==
    /\ task[t].pc = "o_send"
    /\ key_trackers' = [key_trackers EXCEPT
                          ![TrackerIndex(task[t].key_index)].semaphore = @ + 1]
    /\ LET after == AfterAttempt(task[t], Err(e), "o_try", "o_backoff")
       IN /\ task' = [task EXCEPT ![t] = after]
          /\ hist' = [hist EXCEPT
                !.tried[t] = Append(@, Attempt(NoResponse, Err(e))),
                !.delays[t] = Slept(after, @)]
    /\ UNCHANGED << translators, config, now, current_key_index, microsoft >>

InitError == InitOpenAI(RetryTasks, {1}, {0}, {1})
NextError ==
    \E t \in 1..RetryTasks :
        \/ O_Call(t, {0})
        \/ O_Acquire(t)
        \/ O_RateLimit(t)
        \/ \E e \in ErrorValues : E_AttemptFails(t, e)
SpecError == InitError /\ [][NextError]_vars

(* The RPM governor of one key under callers that arrive over time. *)
InitRpm == InitOpenAI(NumTasks, {1}, 1..MaxRpm, {MaxConcurrent})
NextRpm == NextOpenAI(NumTasks, {1}, FewResponses) \/ Tick(RpmStep, RpmTicks)
SpecRpm == InitRpm /\ [][NextRpm]_vars

-----------------------------------------------------------------------------
(* Admission permits.                                                      *)

(* Task t is inside try_translate_single with the permit of key k. *)
O_HoldsPermit(t, k) ==
    /\ task[t].pc \in {"o_ratelimit", "o_rl_sleep", "o_send"}
    /\ task[t].key_index + 1 = k

(* Task t is inside try_translate_batch with a permit. *)
M_HoldsPermit(t) ==
    task[t].pc \in {"m_token_lock", "m_expiry_lock", "m_auth", "m_auth_sleep",
                    "m_send", "m_clear_token", "m_clear_expiry"}

O_Holders(k) == {t \in DOMAIN task : O_HoldsPermit(t, k)}
M_Holders == {t \in DOMAIN task : M_HoldsPermit(t)}

(* C1: in every reachable state, at most concurrent_limit attempts hold a  *)
(* permit of the same governor: of one OpenAI key's semaphore, or of the   *)
(* Microsoft translator's semaphore, however many callers there are.       *)
C1_PermitBound ==
    /\ backend = "openai" =>
          \A k \in DOMAIN key_trackers :
              Cardinality(O_Holders(k)) <= concurrent_limit
    /\ backend = "microsoft" => Cardinality(M_Holders) <= concurrent_limit

(* C1 witness: every permit of a key is held and one more caller waits     *)
(* for one.                                                                *)
C1_Witness ==
    /\ backend = "openai"
    /\ \E k \in DOMAIN key_trackers :
          /\ Cardinality(O_Holders(k)) = concurrent_limit
          /\ \E t \in DOMAIN task :
                task[t].pc = "o_acquire" /\ task[t].key_index + 1 = k

-----------------------------------------------------------------------------
(* The RPM window.                                                         *)

(* The admissions of key k granted in the 60 seconds that end at instant   *)
(* `at`, as positions of hist.granted[k].                                  *)
GrantedInWindow(k, at) ==
    {j \in 1..Len(hist.granted[k]) :
        /\ at - WindowSecs < hist.granted[k][j]
        /\ hist.granted[k][j] <= at}

(* C2: with rpm_limit = R > 0, taking the instant wait_for_rate_limit      *)
(* returns as the instant of the grant, no trailing 60-second window       *)
(* contains more than R grants of one key.                                 *)
C2_RpmWindow ==
    rpm_limit > 0 =>
        \A k \in DOMAIN key_trackers :
            \A i \in 1..Len(hist.granted[k]) :
                Cardinality(GrantedInWindow(k, hist.granted[k][i])) <= rpm_limit

-----------------------------------------------------------------------------
(* The retry loop.                                                         *)

(* The errors the documentation calls retryable: a transport failure, a    *)
(* timeout, a 5xx response.                                                *)
Transient(e) ==
    \/ e.kind \in {"NetworkError", "TimeoutError"}
    \/ e.kind = "HttpError" /\ e.status \in 500..599

FailedTransient(a) == a.result.tag = "Err" /\ Transient(a.result.error)
FailedFatal(a) == a.result.tag = "Err" /\ ~Transient(a.result.error)

ErrorsOf(attempts) == [i \in 1..Len(attempts) |-> attempts[i].result.error]

(* C3: with max_retries = N, a call whose every attempt fails with a       *)
(* retryable error makes exactly N+1 attempts (never more while it runs)   *)
(* and returns MaxRetriesExceeded with attempts = N+1 and the N+1 errors   *)
(* of its attempts, in the order of the attempts.                          *)
C3_RetryBudget ==
    \A t \in DOMAIN task :
        /\ Len(hist.tried[t]) <= task[t].max_retries + 1
        /\ ( /\ task[t].pc = "done"
             /\ \A i \in 1..Len(hist.tried[t]) : FailedTransient(hist.tried[t][i]) )
           => /\ Len(hist.tried[t]) = task[t].max_retries + 1
              /\ task[t].result =
                   Err(MaxRetriesExceeded(task[t].max_retries + 1,
                                          ErrorsOf(hist.tried[t])))

(* C3 witness: the largest budget is exhausted by errors of two kinds. *)
C3_Witness ==
    \E t \in DOMAIN task :
        /\ task[t].pc = "done"
        /\ task[t].max_retries = MaxRetries
        /\ task[t].result.tag = "Err"
        /\ task[t].result.error.kind = "MaxRetriesExceeded"
        /\ Len(hist.tried[t]) = MaxRetries + 1
        /\ hist.tried[t][1].result.error = HttpError(503)
        /\ hist.tried[t][2].result.error = TimeoutError

(* C4: an attempt that fails with a non-retryable error is the last of     *)
(* its call: the call has returned that very error (not the errors pushed  *)
(* before it), and no backoff sleep follows it.                            *)
C4_FatalReturnsAtOnce ==
    \A t \in DOMAIN task :
        \A i \in 1..Len(hist.tried[t]) :
            FailedFatal(hist.tried[t][i]) =>
                /\ i = Len(hist.tried[t])
                /\ task[t].pc = "done"
                /\ task[t].result = hist.tried[t][i].result
                /\ Len(hist.delays[t]) = i - 1

(* C4 witness: a non-retryable error on the third attempt, after two       *)
(* retryable ones.                                                         *)
C4_Witness ==
    \E t \in DOMAIN task :
        /\ Len(hist.tried[t]) = 3
        /\ FailedTransient(hist.tried[t][1])
        /\ FailedTransient(hist.tried[t][2])
        /\ FailedFatal(hist.tried[t][3])
        /\ task[t].max_retries = MaxRetries

FirstAnswered401(t) ==
    /\ task[t].max_retries = 3
    /\ Len(hist.tried[t]) >= 1
    /\ hist.tried[t][1].response = Unauthorized

(* C5 as claimed: with max_retries = 3 and a 401 answer to the first       *)
(* attempt the call ends after one attempt and no delay, and returns an    *)
(* error of kind AuthenticationError.                                      *)
C5_Claimed ==
    \A t \in DOMAIN task :
        FirstAnswered401(t) =>
            /\ Len(hist.tried[t]) = 1
            /\ hist.delays[t] = << >>
            /\ task[t].pc = "done"
            /\ task[t].result.tag = "Err"
            /\ task[t].result.error.kind = "AuthenticationError"

(* C5 as amended: with max_retries = 3 and a 401 answer to the first       *)
(* attempt the call ends after one attempt and no delay, and returns       *)
(* HttpError with status 401.                                              *)
C5_Unauthorized ==
    \A t \in DOMAIN task :
        FirstAnswered401(t) =>
            /\ Len(hist.tried[t]) = 1
            /\ hist.delays[t] = << >>
            /\ task[t].pc = "done"
            /\ task[t].result = Err(HttpError(401))

(* C5 witness: such a call of the Microsoft backend has returned. *)
C5_Witness ==
    \E t \in DOMAIN task :
        /\ backend = "microsoft"
        /\ FirstAnswered401(t)
        /\ task[t].pc = "done"

-----------------------------------------------------------------------------
(* The token cache.                                                        *)

(* Task t is between an authentication request and its outcome. *)
Authenticating(t) == task[t].pc \in {"m_auth", "m_auth_sleep"}

(* This step is task t's test of the cache in get_auth_token. *)
TestsCache(t) == task[t].pc = "m_expiry_lock" /\ task'[t].pc # "m_expiry_lock"

(* This step is task t's return from get_auth_token with the token tok    *)
(* and without an authentication request.                                  *)
ServedFromCache(t, tok) == task'[t].pc = "m_send" /\ task'[t].token = tok

(* Seconds left at instant `at` until the stored expiry. *)
Remaining(at) == token_expiry.value - at

(* C6: callers that are in get_auth_token together go through one refresh: *)
(* at most one of them is sending authentication requests at any moment,   *)
(* and a caller that waited while another stored a token (no clear having  *)
(* begun since, more than the margin left) returns that token without      *)
(* sending a request of its own.                                           *)
C6_SingleFlight ==
    /\ [](\A t, u \in DOMAIN task :
            Authenticating(t) /\ Authenticating(u) => t = u)
    /\ [][\A t \in DOMAIN task :
            ( /\ TestsCache(t)
              /\ hist.behind[t] # None
              /\ now - hist.fetched_at < 480 )
            => /\ ServedFromCache(t, hist.behind[t])
               /\ hist'.issued = hist.issued]_vars

(* Two callers hold the one token issued; the second waited for it.        *)
C6_Witness ==
    \E t, u \in DOMAIN task :
        /\ t # u
        /\ hist.issued = 1
        /\ task[u].pc = "m_send"
        /\ hist.behind[u] = Some(1)
        /\ task[u].token = Some(1)
        /\ task[t].pc = "m_send"
        /\ task[t].token = Some(1)

(* C7: once clear_cached_token has completed, a get_auth_token that tests  *)
(* the cache before any token is stored sends an authentication request,   *)
(* whatever the cache held before.                                         *)
C7_Invalidation ==
    [][\A t \in DOMAIN task :
        (TestsCache(t) /\ hist.invalidated) => task'[t].pc = "m_auth"]_vars

(* A caller sends a request after a clear of a token that had more than    *)
(* the margin left.                                                        *)
C7_Witness ==
    \E t \in DOMAIN task :
        /\ hist.invalidated
        /\ task[t].pc = "m_auth"
        /\ hist.issued = 1
        /\ now - hist.fetched_at < 480

(* C8: a get_auth_token that tests the cache after another returned a      *)
(* token, no clear having begun since and more than 60 seconds being left  *)
(* until the stored expiry, returns the same token and sends no            *)
(* authentication request.                                                 *)
C8_Idempotence ==
    [][\A t \in DOMAIN task :
        ( /\ TestsCache(t)
          /\ hist.last_token # None
          /\ token_expiry # None
          /\ Remaining(now) > 60 )
        => /\ ServedFromCache(t, hist.last_token)
           /\ hist'.issued = hist.issued]_vars

(* The second caller came after the first had returned, and was served     *)
(* the token the first one fetched.                                        *)
C8_Witness ==
    \E t, u \in DOMAIN task :
        /\ t # u
        /\ hist.issued = 1
        /\ task[t].pc = "done"
        /\ task[t].result = Ok("translation")
        /\ task[u].pc = "m_send"
        /\ task[u].token = Some(1)
        /\ hist.behind[u] = None
        /\ hist.last_token = Some(1)
        /\ now > hist.fetched_at

(* C9: the cache serves a token only with more than 60 seconds left until  *)
(* the stored expiry, hence less than 480 seconds after it was fetched;    *)
(* otherwise a request is sent; a token is stored with an expiry 540       *)
(* seconds after the instant of the store.                                 *)
C9_Freshness ==
    [][\A t \in DOMAIN task :
        /\ TestsCache(t) =>
              IF cached_token # None /\ token_expiry # None
                 /\ Remaining(now) > 60
              THEN /\ ServedFromCache(t, cached_token)
                   /\ now - hist.fetched_at < 480
              ELSE task'[t].pc = "m_auth"
        /\ (task[t].pc = "m_auth" /\ task'[t].pc = "m_send") =>
              /\ token_expiry' = Some(now + 540)
              /\ cached_token' = task'[t].token]_vars

(* A caller refreshes a token that has exactly 60 seconds left. *)
C9_Witness ==
    \E t \in DOMAIN task :
        /\ task[t].pc = "m_auth"
        /\ cached_token # None
        /\ token_expiry # None
        /\ Remaining(now) = 60

-----------------------------------------------------------------------------
(* Key rotation.                                                           *)

(* C10: the i-th call of get_next_key_index returns (i - 1) modulo the     *)
(* number of keys: 0, 1, ..., N-1 in order, then 0 again.                  *)
C10_RoundRobin ==
    \A i \in 1..Len(hist.key_log) : hist.key_log[i] = (i - 1) % api_keys

(* The call after the last key of the pool returned the first key. *)
C10_Witness ==
    /\ api_keys = MaxKeys
    /\ Len(hist.key_log) = MaxKeys + 1
    /\ hist.key_log[MaxKeys] = MaxKeys - 1
    /\ hist.key_log[MaxKeys + 1] = 0

(* C11: under any interleaving of concurrent get_next_key_index calls the  *)
(* values returned are consecutive modulo the number of keys, starting     *)
(* from the cursor before the calls (0 after construction), and the cursor *)
(* is a valid index of the pool, one past the value returned last.         *)
C11_AtomicCursor ==
    api_keys >= 1 =>
        /\ current_key_index \in 0..(api_keys - 1)
        /\ Len(hist.key_log) >= 1 => hist.key_log[1] = 0
        /\ \A i \in 1..(Len(hist.key_log) - 1) :
               hist.key_log[i + 1] = (hist.key_log[i] + 1) % api_keys
        /\ current_key_index = Len(hist.key_log) % api_keys

(* One caller is inside the critical section while another waits for the   *)
(* lock, the cursor having gone round the pool already.                    *)
C11_Witness ==
    \E t, u \in DOMAIN task :
        /\ task[t].pc = "k_advance"
        /\ task[u].pc = "k_lock"
        /\ api_keys = MaxKeys
        /\ Len(hist.key_log) > api_keys

-----------------------------------------------------------------------------
(* The empty key pool.                                                     *)

(* Attempt a of some call reported ConfigurationError. *)
ReportedNoKeys(a) == a.result = Err(ConfigurationError)

(* C12, as claimed: an empty pool is rejected when the translator is       *)
(* constructed, so that a translator that serves a call has keys and no    *)
(* attempt makes the emptiness check.                                      *)
C12_Claimed ==
    backend = "openai" =>
        \A t \in DOMAIN task :
            task[t].pc # "idle" =>
                /\ api_keys >= 1
                /\ \A i \in 1..Len(hist.tried[t]) :
                       ~ReportedNoKeys(hist.tried[t][i])

(* C12, amended: OpenAITranslator::new accepts an empty pool; every        *)
(* attempt makes the emptiness check, and reports ConfigurationError       *)
(* exactly when the pool is empty.                                         *)
C12_CheckedPerAttempt ==
    backend = "openai" =>
        \A t \in DOMAIN task :
            \A i \in 1..Len(hist.tried[t]) :
                ReportedNoKeys(hist.tried[t][i]) <=> api_keys = 0

(* A call on a translator constructed without keys was answered            *)
(* ConfigurationError by its attempt.                                      *)
C12_Witness ==
    \E t \in DOMAIN task :
        /\ backend = "openai"
        /\ api_keys = 0
        /\ Len(hist.tried[t]) = 1
        /\ ReportedNoKeys(hist.tried[t][1])

(* C13: on an OpenAI translator without keys a call returns                *)
(* ConfigurationError after one attempt, whatever max_retries is: no       *)
(* backoff, no request, no permit, and the key cursor is neither read nor  *)
(* advanced.                                                               *)
C13_NoKeysFailsFast ==
    (backend = "openai" /\ api_keys = 0) =>
        /\ current_key_index = 0
        /\ hist.key_log = << >>
        /\ \A t \in DOMAIN task :
            /\ task[t].pc \in {"idle", "done"}
            /\ task[t].pc = "done" =>
                  /\ task[t].result = Err(ConfigurationError)
                  /\ Len(hist.tried[t]) = 1
                  /\ hist.tried[t][1].response = NoResponse
                  /\ hist.delays[t] = << >>

(* The call that failed so had its whole retry budget left. *)
C13_Witness ==
    \E t \in DOMAIN task :
        /\ backend = "openai"
        /\ api_keys = 0
        /\ task[t].pc = "done"
        /\ task[t].max_retries = MaxRetries
        /\ task[t].result = Err(ConfigurationError)

-----------------------------------------------------------------------------
(* Release on every exit path.                                             *)

(* C14: the permits of a governor that are not free are held by attempts   *)
(* in progress, whether earlier attempts ended by success, by an error or  *)
(* by the drop of the call at a suspension point; so with no attempt in    *)
(* progress all concurrent_limit permits are free.  The same holds of the  *)
(* mutexes: each is held only by a task inside its critical section.       *)
C14_PermitsReturned ==
    /\ backend = "openai" =>
          \A k \in DOMAIN key_trackers :
              /\ key_trackers[k].semaphore + Cardinality(O_Holders(k))
                    = concurrent_limit
              /\ O_Holders(k) = {} => key_trackers[k].semaphore = concurrent_limit
              /\ key_trackers[k].times_lock # 0 =>
                    task[key_trackers[k].times_lock].pc = "o_rl_sleep"
    /\ backend = "microsoft" =>
          /\ semaphore + Cardinality(M_Holders) = concurrent_limit
          /\ M_Holders = {} => semaphore = concurrent_limit
          /\ token_lock # 0 =>
                task[token_lock].pc \in {"m_expiry_lock", "m_auth", "m_auth_sleep"}
          /\ expiry_lock # 0 =>
                task[expiry_lock].pc \in {"m_auth", "m_auth_sleep"}

(* Every call is over, one by success, one by an error and one by a drop   *)
(* while it held a permit, or two of these; all permits are free.          *)
C14_Witness ==
    /\ \A t \in DOMAIN task : task[t].pc \in {"done", "dropped"}
    /\ \E t \in DOMAIN task :
          /\ task[t].pc = "dropped"
          /\ task[t].result.at \in {"o_rl_sleep", "o_send", "m_auth", "m_send"}
    /\ \E t \in DOMAIN task : task[t].pc = "done"
    /\ backend = "openai" =>
          \A k \in DOMAIN key_trackers :
              key_trackers[k].semaphore = concurrent_limit
    /\ backend = "microsoft" => semaphore = concurrent_limit

-----------------------------------------------------------------------------
(* Admission.                                                              *)

(* The callers suspended in semaphore.acquire() of the governor. *)
Waiting ==
    {t \in DOMAIN task : task[t].pc \in {"o_acquire", "m_try"}}

(* The attempts holding a permit of the governor, and its free permits. *)
Admitted == IF backend = "openai" THEN O_Holders(1) ELSE M_Holders
FreePermits ==
    IF backend = "openai" THEN key_trackers[1].semaphore ELSE semaphore

(* C15: a caller waiting for a permit can take one whenever fewer than     *)
(* concurrent_limit are held; when every caller has asked and none has     *)
(* finished, admission stops with exactly concurrent_limit callers         *)
(* admitted and all the others suspended.                                  *)
C15_Admission ==
    /\ \A t \in Waiting :
          Cardinality(Admitted) < concurrent_limit =>
              ENABLED (O_Acquire(t) \/ M_Acquire(t))
    /\ \A t \in Waiting :
          Cardinality(Admitted) = concurrent_limit =>
              ~ENABLED (O_Acquire(t) \/ M_Acquire(t))
    /\ ( /\ \A t \in DOMAIN task : task[t].pc \notin {"idle", "done"}
         /\ \A t \in Waiting : ~ENABLED (O_Acquire(t) \/ M_Acquire(t)) )
       => /\ Cardinality(Admitted) = concurrent_limit
          /\ Cardinality(Waiting) = Cardinality(DOMAIN task) - concurrent_limit

(* Five callers, two permits: two admitted, three suspended, no permit     *)
(* free.                                                                   *)
C15_Witness ==
    /\ concurrent_limit = MaxConcurrent
    /\ Cardinality(Admitted) = MaxConcurrent
    /\ Cardinality(Waiting) = AdmitTasks - MaxConcurrent
    /\ FreePermits = 0

-----------------------------------------------------------------------------
(* Backoff and recovery.                                                   *)

(* The attempts of task t that are over or in progress. *)
AttemptsBegun(t) ==
    IF task[t].pc \in {"idle", "done", "o_backoff", "m_backoff"}
    THEN Len(hist.tried[t])
    ELSE Len(hist.tried[t]) + 1

(* C16: no delay is slept before the first attempt, and the k-th delay of  *)
(* a call, slept between attempt k and attempt k+1, is 100 * 2^(k-1)       *)
(* milliseconds, in both backends.                                         *)
C16_Backoff ==
    \A t \in DOMAIN task :
        /\ \A k \in 1..Len(hist.delays[t]) :
              hist.delays[t][k] = 100 * 2^(k - 1)
        /\ hist.tried[t] = << >> => hist.delays[t] = << >>
        /\ task[t].pc \in {"o_backoff", "m_backoff"} =>
              Len(hist.delays[t]) = Len(hist.tried[t])
        /\ task[t].pc \notin {"idle", "done", "o_backoff", "m_backoff"} =>
              Len(hist.delays[t]) = AttemptsBegun(t) - 1

(* The third retry is about to begin after delays of 100, 200 and 400 ms. *)
C16_Witness ==
    \E t \in DOMAIN task :
        /\ task[t].pc \in {"o_backoff", "m_backoff"}
        /\ hist.delays[t] = << 100, 200, 400 >>

(* The last attempt over succeeded. *)
Recovered(t) ==
    /\ hist.tried[t] # << >>
    /\ hist.tried[t][Len(hist.tried[t])].result.tag = "Ok"

(* C17: when attempt j+1 succeeds after j retryable failures, the call     *)
(* returns that attempt's result at once, after exactly j+1 attempts and   *)
(* the j delays 100, 200, ... milliseconds.                                *)
C17_SuccessAfterRetries ==
    \A t \in DOMAIN task :
        Recovered(t) =>
            LET n == Len(hist.tried[t])
            IN /\ task[t].pc = "done"
               /\ task[t].result = hist.tried[t][n].result
               /\ n <= task[t].max_retries + 1
               /\ \A i \in 1..(n - 1) : FailedTransient(hist.tried[t][i])
               /\ hist.delays[t] = [k \in 1..(n - 1) |-> 100 * 2^(k - 1)]

(* max_retries = 3; 503, 503, then the translation: three attempts and     *)
(* delays of 100 and 200 milliseconds.                                     *)
C17_Witness ==
    \E t \in DOMAIN task :
        /\ task[t].max_retries = 3
        /\ Len(hist.tried[t]) = 3
        /\ hist.tried[t][1].result = Err(HttpError(503))
        /\ hist.tried[t][2].result = Err(HttpError(503))
        /\ task[t].result = Ok("translation")
        /\ hist.delays[t] = << 100, 200 >>

-----------------------------------------------------------------------------
(* Error classification.                                                   *)

(* C18: is_retryable holds exactly of NetworkError, TimeoutError and       *)
(* HttpError with a status from 500 to 599.  A call with max_retries = 0   *)
(* whose attempt fails with e shows the verdict: a retryable e is pushed   *)
(* and the call returns MaxRetriesExceeded with it, any other e is         *)
(* returned as it is.                                                      *)
C18_Classification ==
    \A t \in DOMAIN task :
        task[t].pc = "done" =>
            LET e == hist.tried[t][1].result.error
                retried == task[t].result = Err(MaxRetriesExceeded(1, << e >>))
                returned == task[t].result = Err(e)
            IN /\ retried # returned
               /\ retried <=>
                    \/ e.kind = "NetworkError"
                    \/ e.kind = "TimeoutError"
                    \/ e.kind = "HttpError" /\ e.status >= 500 /\ e.status < 600

(* An HttpError with status 599 was retried and one with status 600 or a   *)
(* MaxRetriesExceeded value was not: one of them, per call.                *)
C18_Witness ==
    \E t \in DOMAIN task :
        /\ task[t].pc = "done"
        /\ hist.tried[t][1].result.error = HttpError(599)
        /\ task[t].result = Err(MaxRetriesExceeded(1, << HttpError(599) >>))

-----------------------------------------------------------------------------
(* 401 from the Microsoft endpoint.                                        *)

(* This step is the return of task t's attempt that was answered 401. *)
Returns401(t) ==
    task[t].pc = "m_clear_expiry" /\ task'[t].pc # "m_clear_expiry"

(* C19: the attempt answered 401 returns only after both assignments of    *)
(* clear_cached_token: the expiry is None and the cache cannot serve the   *)
(* rejected token; the call then fails with that attempt's error, with no  *)
(* further attempt and no backoff, whether or not it has a retry left; and *)
(* the next test of the cache by any call sends an authentication request. *)
C19_UnauthorizedClears ==
    [][\A t \in DOMAIN task :
        /\ Returns401(t) =>
              /\ token_expiry' = None
              /\ cached_token' # task[t].token
              /\ ~TokenFresh(cached_token', token_expiry', now')
              /\ task'[t].pc = "done"
              /\ task'[t].result = Err(HttpError(401))
              /\ hist'.tried[t] =
                    Append(hist.tried[t], Attempt(Unauthorized, Err(HttpError(401))))
              /\ hist'.delays[t] = hist.delays[t]
        /\ (TestsCache(t) /\ hist.invalidated) =>
              /\ task'[t].pc = "m_auth"
              /\ task'[t].token = None]_vars

(* After the 401 of one call the other call is re-authenticating. *)
C19_Witness ==
    \E t, u \in DOMAIN task :
        /\ t # u
        /\ task[t].pc = "done"
        /\ task[t].result = Err(HttpError(401))
        /\ Len(hist.tried[t]) <= task[t].max_retries
        /\ task[u].pc = "m_auth"
        /\ hist.invalidated
        /\ hist.issued = 1

-----------------------------------------------------------------------------
(* The timeout of TranslateOptions.                                        *)

(* The request of an attempt is sent with the timeout of the options       *)
(* (Client::builder().timeout(timeout)): it is answered or it times out.   *)
(* The authentication request is sent by self.client, and fails, if it     *)
(* does, as any request of that client can.                                *)
TimedResponses ==
    { [type |-> "status", status |-> 200, body |-> "translation"],
      [type |-> "status", status |-> 401],
      [type |-> "transport", failure |-> "timeout"] }
TimedAuthResponses ==
    { [type |-> "status", status |-> 200, body |-> "token"],
      [type |-> "transport", failure |-> "timeout"] }

InitTimeout ==
    \/ InitOpenAI(NumTasks, {1}, {1}, {1})
    \/ InitMicrosoft(NumTasks, {1}, {FALSE})
NextTimeout ==
    \/ NextOpenAI(NumTasks, {1}, TimedResponses)
    \/ NextMicrosoft(NumTasks, {1}, TimedResponses, TimedAuthResponses)
    \/ Tick(WindowSecs, 1)
    \/ Elapse
SpecTimeout == InitTimeout /\ [][NextTimeout]_vars

(* The suspension points of a call: semaphore.acquire(), the sleep of      *)
(* wait_for_rate_limit, get_auth_token (its locks, its request, its        *)
(* sleep), the backoff sleep, and the HTTP request.                        *)
AtRequest == {"o_send", "m_send"}
SuspensionPoints ==
    {"o_acquire", "m_try", "o_rl_sleep", "m_token_lock", "m_expiry_lock",
     "m_auth", "m_auth_sleep", "o_backoff", "m_backoff"} \cup AtRequest

(* This step ends an attempt of task t with TimeoutError. *)
TimeoutFires(t) ==
    /\ Len(hist'.tried[t]) = Len(hist.tried[t]) + 1
    /\ hist'.tried[t][Len(hist'.tried[t])].result = Err(TimeoutError)

(* C20 as claimed: wherever a call is suspended, its timeout can fire. *)
C20_Claimed ==
    \A t \in DOMAIN task :
        task[t].pc \in SuspensionPoints => ENABLED (NextTimeout /\ TimeoutFires(t))

(* C20: the timeout bounds the HTTP request of an attempt and nothing      *)
(* else.  An attempt ends with TimeoutError only at its HTTP request, by   *)
(* the timeout of that request; the step releases the attempt's permit     *)
(* and hands the error to the retry loop, which treats it as transient.    *)
(* At every other suspension point no timeout can fire.                    *)
C20_RequestTimeout ==
    [][\A t \in DOMAIN task :
        /\ TimeoutFires(t) =>
              /\ task[t].pc \in AtRequest
              /\ hist'.tried[t][Len(hist'.tried[t])].response =
                    [type |-> "transport", failure |-> "timeout"]
              /\ FreePermits' = FreePermits + 1
              /\ task'[t].pc \in {"o_backoff", "m_backoff", "done"}
              /\ task'[t].pc = "done" =>
                    task'[t].result.error.kind = "MaxRetriesExceeded"
        /\ task[t].pc \in AtRequest => ENABLED (NextTimeout /\ TimeoutFires(t))
        /\ task[t].pc \in SuspensionPoints \ AtRequest =>
              ~ENABLED (NextTimeout /\ TimeoutFires(t))]_vars

(* A request timed out and its attempt gave the permit back: the other     *)
(* call holds it while the first sleeps before its retry.                  *)
C20_Witness ==
    \E t, u \in DOMAIN task :
        /\ t # u
        /\ hist.tried[t] = << Attempt([type |-> "transport", failure |-> "timeout"],
                                      Err(TimeoutError)) >>
        /\ task[t].pc \in {"o_backoff", "m_backoff"}
        /\ u \in Admitted
        /\ task[u].pc \in SuspensionPoints \ AtRequest

-----------------------------------------------------------------------------
(* rpm_limit = 0.                                                          *)

(* The attempts that have been admitted and whose request is outstanding. *)
InFlight == {t \in DOMAIN task : task[t].pc = "o_send"}

(* C21: with rpm_limit = 0 no key has a timestamp window, and              *)
(* wait_for_rate_limit returns at once: a caller that reached it can go on *)
(* to its request, the step is taken at the instant the caller arrived,    *)
(* records nothing, and never puts the caller to sleep.  Only the permits  *)
(* limit admission.                                                        *)
C21_RpmDisabled ==
    /\ []((backend = "openai" /\ rpm_limit = 0) =>
            /\ \A k \in DOMAIN key_trackers :
                  /\ key_trackers[k].request_times = None
                  /\ hist.granted[k] = << >>
            /\ \A t \in DOMAIN task :
                  /\ task[t].pc # "o_rl_sleep"
                  /\ task[t].pc = "o_ratelimit" => ENABLED O_RateLimit(t))
    /\ [][(backend = "openai" /\ rpm_limit = 0) =>
            \A t \in DOMAIN task :
                (task[t].pc = "o_ratelimit" /\ task'[t] # task[t]) =>
                    /\ task'[t].pc = "o_send"
                    /\ now' = now
                    /\ key_trackers' = key_trackers]_vars

(* With no RPM limit every permit of the key is in use for a request, all  *)
(* admitted at the same instant, and a further caller waits for a permit.  *)
C21_Witness ==
    /\ backend = "openai"
    /\ rpm_limit = 0
    /\ Cardinality(InFlight) = concurrent_limit
    /\ concurrent_limit >= 2
    /\ \E t \in DOMAIN task : task[t].pc = "o_acquire"
    /\ \E t \in DOMAIN task : task[t].pc = "done" /\ task[t].result = Ok("translation")

-----------------------------------------------------------------------------
(* The recorded window.                                                    *)

(* This step is the return of wait_for_rate_limit to task t. *)
Granted(t) ==
    /\ task[t].pc \in {"o_ratelimit", "o_rl_sleep"}
    /\ task'[t].pc = "o_send"

(* The entries of a timestamp sequence younger than the window at `at`. *)
Young(times, at) == {j \in 1..Len(times) : at - times[j] < WindowSecs}

(* C22: with rpm_limit = R > 0, when wait_for_rate_limit returns, the      *)
(* sequence of the key ends with the entry it appended, and at most R of   *)
(* its entries, that one included, are younger than 60 seconds at that     *)
(* instant.                                                                *)
C22_RecordedWindow ==
    [][\A t \in DOMAIN task :
        (rpm_limit > 0 /\ Granted(t)) =>
            LET k == task[t].key_index + 1
                before == key_trackers[k].request_times.value
                after == key_trackers'[k].request_times.value
            IN /\ Len(after) >= 1
               /\ SubSeq(after, 1, Len(after) - 1) \in
                     {before, Retain(before, now)}
               /\ Cardinality(Young(after, now')) <= rpm_limit]_vars

(* A grant that followed a sleep: the sequence holds more than rpm_limit   *)
(* entries, of which the oldest have just left the window.                 *)
C22_Witness ==
    /\ backend = "openai"
    /\ rpm_limit = MaxRpm
    /\ \E k \in DOMAIN key_trackers :
          LET times == key_trackers[k].request_times.value
          IN /\ Len(times) > rpm_limit
             /\ Cardinality(Young(times, now)) = rpm_limit
             /\ key_trackers[k].times_lock = 0
             /\ \E t \in DOMAIN task :
                   task[t].pc = "o_send" /\ hist.delays[t] # << >>

-----------------------------------------------------------------------------
(* A static api_key.                                                       *)

(* The positions of a call inside get_auth_token past its first test. *)
InTokenCache == {"m_token_lock", "m_expiry_lock", "m_auth", "m_auth_sleep"}

(* C23: with a static api_key, get_auth_token returns the key at once: no  *)
(* call is ever at a cache lock or at an authentication request, no token  *)
(* is issued, every request is sent with the key, and the cached token and *)
(* the expiry are None in every reachable state.                           *)
C23_StaticKey ==
    (backend = "microsoft" /\ api_key) =>
        /\ cached_token = None
        /\ token_expiry = None
        /\ token_lock = 0
        /\ expiry_lock = 0
        /\ hist.issued = 0
        /\ \A t \in DOMAIN task :
              /\ task[t].pc \notin InTokenCache
              /\ task[t].pc = "m_try" => task[t].token = None
              /\ task[t].pc \in {"m_send", "m_clear_token", "m_clear_expiry"} =>
                    task[t].token = Some("api_key")

(* With a static api_key a call retried after a 503 and was then answered  *)
(* 401: clear_cached_token ran on the empty cache and the call failed.     *)
C23_Witness ==
    /\ backend = "microsoft"
    /\ api_key
    /\ hist.invalidated
    /\ \E t \in DOMAIN task :
          /\ task[t].pc = "done"
          /\ task[t].result = Err(HttpError(401))
          /\ Len(hist.tried[t]) = 2

-----------------------------------------------------------------------------
(* The authentication requests of one refresh.                             *)

AuthSucceeds(a) == a.type = "status" /\ is_success(a.status) /\ a.body = "token"
AuthFails(a) == a.type = "transport" \/ ~is_success(a.status)

(* The last attempt of task t that is over, after this step. *)
EndedAttempt(t) == hist'.tried[t][Len(hist'.tried[t])]

(* This step ends an attempt of task t inside get_auth_token. *)
RefreshFailsWith(t, e) ==
    /\ Len(hist'.tried[t]) = Len(hist.tried[t]) + 1
    /\ EndedAttempt(t) = Attempt(NoResponse, Err(e))
    /\ task'[t].pc # "m_auth_sleep"
    /\ hist'.auth[t] = NoRefresh

(* C24: a refresh sends at most 3 authentication requests, with a pause of *)
(* one second before each request but the first.  A token ends it at       *)
(* once and is cached with its expiry.  A failed request (a status that is *)
(* not a success, or a transport failure) is followed by the pause and the *)
(* next request if fewer than 3 were sent, and that request is sent no     *)
(* earlier than one second after the failure; the third failure ends it    *)
(* with no pause, with AuthenticationError for a status and NetworkError   *)
(* for a transport failure.  Whenever no token is obtained the cached      *)
(* token and the expiry are left as they were.                             *)
C24_Refresh ==
    [][\A t \in DOMAIN task :
        /\ Authenticating(t) =>
              /\ hist.auth[t].requests \in 1..AuthAttempts
              /\ hist.auth[t].pauses =
                    [i \in 1..(hist.auth[t].requests
                                 - IF task[t].pc = "m_auth" THEN 1 ELSE 0)
                       |-> AuthPauseSecs]
        /\ \A a \in AuthResponses :
              M_AuthResponse(t, a) =>
                 /\ AuthSucceeds(a) =>
                       /\ task'[t].pc = "m_send"
                       /\ task'[t].token # None
                       /\ cached_token' = task'[t].token
                       /\ token_expiry' = Some(now + TokenLifetimeSecs)
                 /\ ~AuthSucceeds(a) =>
                       /\ cached_token' = cached_token
                       /\ token_expiry' = token_expiry
                 /\ (AuthFails(a) /\ hist.auth[t].requests < AuthAttempts) =>
                       /\ task'[t].pc = "m_auth_sleep"
                       /\ task'[t].wake = now + AuthPauseSecs
                       /\ hist'.tried[t] = hist.tried[t]
                 /\ (AuthFails(a) /\ hist.auth[t].requests = AuthAttempts) =>
                       RefreshFailsWith(t, IF a.type = "status"
                                           THEN AuthenticationError
                                           ELSE NetworkError)
        /\ M_AuthSleepDone(t) =>
              /\ now >= task[t].wake
              /\ task'[t].pc = "m_auth"
              /\ hist'.auth[t].requests = hist.auth[t].requests + 1]_vars

(* The third request of a refresh is outstanding, two one-second pauses    *)
(* behind it, two seconds after the first was sent, and the cache is       *)
(* empty.                                                                  *)
C24_Witness ==
    \E t \in DOMAIN task :
        /\ task[t].pc = "m_auth"
        /\ now = 2 * AuthPauseSecs
        /\ hist.auth[t] = [requests |-> AuthAttempts,
                           pauses |-> << AuthPauseSecs, AuthPauseSecs >>]
        /\ cached_token = None
        /\ token_expiry = None

-----------------------------------------------------------------------------
(* Independence of the keys.                                               *)

(* The keys whose tracker this step changes. *)
TouchedKeys == {j \in DOMAIN key_trackers : key_trackers'[j] # key_trackers[j]}

(* The attempts between the acquisition of a permit and its release. *)
AllInFlight ==
    {t \in DOMAIN task : task[t].pc \in {"o_ratelimit", "o_rl_sleep", "o_send"}}

(* C25: every key has a permit counter and a timestamp window of its own.  *)
(* A step that acquires or releases a permit of a key, or records an       *)
(* admission in its window, is the step of an attempt that selected that   *)
(* key, and leaves the tracker of every other key unchanged; a key's       *)
(* counter is concurrent_limit less its own holders; and the attempts in   *)
(* flight over a pool of N keys number at most N * concurrent_limit.       *)
C25_KeyIndependence ==
    /\ [](backend = "openai" =>
            /\ \A j \in DOMAIN key_trackers :
                  key_trackers[j].semaphore =
                      concurrent_limit - Cardinality(O_Holders(j))
            /\ Cardinality(AllInFlight) <= api_keys * concurrent_limit)
    /\ [][backend = "openai" =>
            /\ Cardinality(TouchedKeys) <= 1
            /\ \A j \in TouchedKeys :
                  \E t \in DOMAIN task :
                      /\ task'[t] # task[t]
                      /\ task[t].key_index + 1 = j
                      /\ task[t].pc \in {"o_acquire", "o_ratelimit",
                                         "o_rl_sleep", "o_send"}]_vars

(* Two keys with one permit each: an attempt is in flight on each key, so  *)
(* N * C attempts are, and each key's window holds its own admission.      *)
C25_Witness ==
    /\ backend = "openai"
    /\ api_keys = 2
    /\ concurrent_limit = 1
    /\ Cardinality(AllInFlight) = api_keys * concurrent_limit
    /\ \A j \in DOMAIN key_trackers :
          /\ key_trackers[j].semaphore = 0
          /\ Cardinality(O_Holders(j)) = 1
          /\ Len(key_trackers[j].request_times.value) = 1

-----------------------------------------------------------------------------
(* OpenAITranslator::translate_batch: one translate_text_with_retry future *)
(* per text, in the order of the texts, driven by join_all.  Task i is the *)
(* future of the i-th text.                                                *)

(* What the endpoint wrote for the i-th text. *)
Translation(i) == << "translation", i >>

(* The answers to a request for the i-th text. *)
ItemResponses(i) ==
    { [type |-> "status", status |-> 200, body |-> "translation",
       content |-> Translation(i)],
      [type |-> "status", status |-> 503],
      [type |-> "status", status |-> 401] }

(* join_all polls the futures in their order: each runs to its first       *)
(* suspension point after the ones before it.                              *)
B_Start(t) ==
    /\ \A u \in 1..(t - 1) : task[u].pc # "idle"
    /\ O_Call(t, {1})

SlotByCompletion(i, order) == Len(order) + 1

(* The place of the output of the i-th future in the vector join_all       *)
(* returns.                                                                *)
Slot(i, order) == i

(* join_all finds the i-th future complete and keeps its output. *)
B_Complete(i) ==
    /\ backend = "openai"
    /\ task[i].pc = "done"
    /\ \A j \in 1..Len(hist.batch.order) : hist.batch.order[j] # i
    /\ hist.batch.result = Pending
    /\ hist' = [hist EXCEPT
          !.batch.outputs[Slot(i, hist.batch.order)] = task[i].result,
          !.batch.order = Append(@, i)]
    /\ UNCHANGED << translators, config, now, openai, microsoft, task >>

JoinReadyFailFast(outputs) ==
    \/ \A i \in DOMAIN outputs : outputs[i] # Pending
    \/ \E i \in DOMAIN outputs : outputs[i].tag = "Err"

(* join_all(futures).await resolves when every future has completed. *)
JoinReady(outputs) == \A i \in DOMAIN outputs : outputs[i] # Pending

(* results.into_iter().collect::<Result<Vec<_>, _>>(): the first Err in    *)
(* the order of the vector, or every value in that order.                  *)
Collect(outputs) ==
    LET failed == {i \in DOMAIN outputs : outputs[i].tag = "Err"}
    IN IF failed = {}
       THEN Ok([i \in DOMAIN outputs |-> outputs[i].value])
       ELSE outputs[CHOOSE i \in failed : \A j \in failed : i <= j]

(* translate_batch returns. *)
B_Collect ==
    /\ backend = "openai"
    /\ hist.batch.result = Pending
    /\ JoinReady(hist.batch.outputs)
    /\ hist' = [hist EXCEPT !.batch.result = Collect(hist.batch.outputs)]
    /\ UNCHANGED << translators, config, now, openai, microsoft, task >>

InitBatch == InitOpenAI(NumTasks, {MaxKeys}, {0}, {MaxConcurrent})
NextBatch ==
    \/ \E t \in 1..NumTasks :
          \/ B_Start(t)
          \/ O_BackoffDone(t)
          \/ O_Acquire(t)
          \/ O_RateLimit(t)
          \/ \E r \in ItemResponses(t) : O_Response(t, r)
          \/ B_Complete(t)
    \/ B_Collect
SpecBatch == InitBatch /\ [][NextBatch]_vars

(* C26: when translate_batch returns Ok, the vector has one element per    *)
(* text and its i-th element is the translation the endpoint wrote for the *)
(* i-th text, the one the last attempt of the i-th item received; and it   *)
(* returns Ok whenever every item succeeded.                               *)
C26_InputOrder ==
    LET result == hist.batch.result
    IN /\ result.tag = "Ok" =>
             /\ Len(result.value) = Len(task)
             /\ \A i \in DOMAIN task :
                   /\ result.value[i] = Translation(i)
                   /\ result.value[i] =
                         hist.tried[i][Len(hist.tried[i])].response.content
       /\ (result # Pending /\ \A i \in DOMAIN task : task[i].result.tag = "Ok")
             => result.tag = "Ok"

(* The batch returned Ok although the second item completed before the    *)
(* first, which had to retry.                                              *)
C26_Witness ==
    /\ hist.batch.result = Ok(<< Translation(1), Translation(2) >>)
    /\ hist.batch.order = << 2, 1 >>
    /\ Len(hist.tried[1]) = 2
    /\ Len(hist.tried[2]) = 1

(* The i-th item ran to the end of its own retry sequence. *)
ItemEnded(i) ==
    LET attempts == hist.tried[i]
        last == attempts[Len(attempts)]
    IN /\ task[i].pc = "done"
       /\ attempts # << >>
       /\ \A j \in 1..(Len(attempts) - 1) : FailedTransient(attempts[j])
       /\ \/ last.result.tag = "Ok" /\ task[i].result = last.result
          \/ FailedFatal(last) /\ task[i].result = last.result
          \/ /\ FailedTransient(last)
             /\ Len(attempts) = task[i].max_retries + 1
             /\ task[i].result =
                   Err(MaxRetriesExceeded(Len(attempts), ErrorsOf(attempts)))

FailedItems == {i \in DOMAIN task : task[i].result.tag = "Err"}

(* C27: translate_batch returns only when every item has run to the end of *)
(* its own retry sequence, whatever became of the others; it returns an    *)
(* error exactly when some item ended in error, and the error is that of   *)
(* the failed item with the lowest index.                                  *)
C27_IndependentItems ==
    hist.batch.result # Pending =>
        /\ \A i \in DOMAIN task : ItemEnded(i)
        /\ hist.batch.result.tag = "Err" <=> FailedItems # {}
        /\ \A i \in FailedItems :
              (\A j \in FailedItems : i <= j) =>
                  hist.batch.result = task[i].result

(* The second item failed at once with 401 and completed first; the first  *)
(* item went on, used both its attempts, and its error is the one          *)
(* returned.                                                               *)
C27_Witness ==
    /\ hist.batch.order = << 2, 1 >>
    /\ task[2].result = Err(HttpError(401))
    /\ Len(hist.tried[2]) = 1
    /\ Len(hist.tried[1]) = 2
    /\ hist.batch.result =
          Err(MaxRetriesExceeded(2, << HttpError(503), HttpError(503) >>))

-----------------------------------------------------------------------------
(* MicrosoftTranslator::translate_batch: the texts of a call travel        *)
(* together.  A task is one call with all its texts.                       *)

(* The attempt a was answered by a successful request. *)
Answered(a) ==
    /\ a.response.type = "status"
    /\ is_success(a.response.status)
    /\ a.result = Ok(a.response.body)

(* C28: a call makes at most max_retries + 1 attempts, one after the       *)
(* other; an attempt under way holds one permit and every attempt that is  *)
(* over was ended by the answer to its one request or by a failure before  *)
(* it; and the call returns either the body of the one successful request  *)
(* of its last attempt, every earlier attempt having failed, or one error. *)
C28_AllOrNothing ==
    backend = "microsoft" =>
        /\ semaphore = concurrent_limit - Cardinality(M_Holders)
        /\ \A t \in DOMAIN task :
              LET attempts == hist.tried[t]
                  n == Len(attempts)
              IN /\ n <= task[t].max_retries + 1
                 /\ AttemptsBegun(t) <= task[t].max_retries + 1
                 /\ \A j \in 1..n :
                       \/ Answered(attempts[j]) /\ j = n
                       \/ attempts[j].result.tag = "Err"
                 /\ task[t].pc = "done" =>
                       /\ n >= 1
                       /\ task[t].result.tag \in {"Ok", "Err"}
                       /\ task[t].result.tag = "Ok" =>
                             /\ Answered(attempts[n])
                             /\ task[t].result = attempts[n].result
                             /\ \A j \in 1..(n - 1) :
                                   attempts[j].result.tag = "Err"
                       /\ task[t].result.tag = "Err" =>
                             \A j \in 1..n : attempts[j].result.tag = "Err"

(* A call returned the body of its third request after two failed          *)
(* attempts.                                                               *)
C28_Witness ==
    /\ backend = "microsoft"
    /\ \E t \in DOMAIN task :
          /\ task[t].pc = "done"
          /\ task[t].result = Ok("translation")
          /\ Len(hist.tried[t]) = 3
          /\ hist.tried[t][1].result = Err(HttpError(503))
          /\ hist.tried[t][2].result = Err(TimeoutError)

-----------------------------------------------------------------------------
(* TranslationManager (src/src/manager/mod.rs): a map from names to        *)
(* translator instances.  Names are numbered 1..MaxNames, and the instance *)
(* given to the k-th add_translator call is k.                             *)

Names == 1..MaxNames

InsertedKeepsOld(map, name, translator) ==
    [n \in DOMAIN map \cup {name} |->
        IF n \in DOMAIN map THEN map[n] ELSE translator]

(* HashMap::insert: the entry of the name is created or replaced. *)
Inserted(map, name, translator) ==
    [n \in DOMAIN map \cup {name} |-> IF n = name THEN translator ELSE map[n]]

LookupOrAny(map, name) ==
    IF name \in DOMAIN map THEN Some(map[name])
    ELSE IF DOMAIN map # {} THEN Some(map[CHOOSE n \in DOMAIN map : TRUE])
    ELSE None

(* HashMap::get *)
Lookup(map, name) == IF name \in DOMAIN map THEN Some(map[name]) ELSE None

(* HashMap::contains_key *)
has_translator(map, name) == name \in DOMAIN map

(* keys().cloned().collect(): the keys, each once, in the order the map    *)
(* iterates them, which is any order.  The vectors it can return.          *)
list_translators(map) ==
    {v \in [1..Cardinality(DOMAIN map) -> DOMAIN map] :
        \A n \in DOMAIN map : \E i \in DOMAIN v : v[i] = n}

(* anyhow!("Translator '{}' not found", translator_name) *)
NotFound(name) == [kind |-> "NotFound", name |-> name]

(* What the translate of a registered translator can return. *)
TranslatorOutcomes == {Ok("translation"), Err(Other), Err(NetworkError)}

DelegatedErrorWrapped(outcome) ==
    IF outcome.tag = "Err" THEN Err(Other) ELSE outcome

(* translator.translate(text, target_lang).await as the tail expression of *)
(* translate: the translator's Result is the manager's, with no `?`, map   *)
(* or map_err between them.                                                *)
Delegated(outcome) == outcome

(* The calls whose translator was invoked and has not returned. *)
Awaiting == {c \in DOMAIN hist.manager.call : hist.manager.call[c].at = "awaiting"}

(* add_translator takes &mut self: it runs while no future of a translate  *)
(* method, which borrows the manager, is alive.                            *)
add_translator(name) ==
    /\ hist.manager.adds < MaxAdds
    /\ Awaiting = {}
    /\ translators' = Inserted(translators, name, hist.manager.adds + 1)
    /\ hist' = [hist EXCEPT !.manager.adds = @ + 1,
                            !.manager.added = @ \cup {name},
                            !.manager.order = Append(@, name)]
    /\ UNCHANGED << config, now, openai, microsoft, task >>

(* The first poll of a translate method of the manager: the lookup, which  *)
(* returns the error at once, or the call of the same method of the        *)
(* translator found, which is awaited.                                     *)
ManagerCall(method, name) ==
    /\ hist.manager.calls < MaxCalls
    /\ LET found == Lookup(translators, name)
           c == hist.manager.calls + 1
       IN IF found = None
          THEN hist' = [hist EXCEPT
                  !.manager.calls = c,
                  !.manager.call[c] =
                      [ method |-> method, asked |-> name, instance |-> 0,
                        returned |-> Pending,
                        answer |-> Err(NotFound(name)), at |-> "done" ],
                  !.manager.answer = Err(NotFound(name))]
          ELSE hist' = [hist EXCEPT
                  !.manager.calls = c,
                  !.manager.invoked = Append(@, found.value),
                  !.manager.call[c] =
                      [ method |-> method, asked |-> name,
                        instance |-> found.value, returned |-> Pending,
                        answer |-> Pending, at |-> "awaiting" ]]
    /\ UNCHANGED << translators, config, now, openai, microsoft, task >>

(* TranslationManager::translate *)
translate(name) == ManagerCall("translate", name)

(* TranslationManager::translate_langid *)
translate_langid(name) == ManagerCall("translate_langid", name)

(* TranslationManager::translate_with_langid *)
translate_with_langid(name) == ManagerCall("translate_with_langid", name)

(* The translator call c awaits returns: call c returns its Result. *)
TranslatorReturns(c, outcome) ==
    /\ c \in Awaiting
    /\ hist' = [hist EXCEPT
          !.manager.call[c].returned = outcome,
          !.manager.call[c].answer = Delegated(outcome),
          !.manager.call[c].at = "done",
          !.manager.answer = Delegated(outcome)]
    /\ UNCHANGED << translators, config, now, openai, microsoft, task >>

(* The future of call c is dropped while it awaits its translator: the     *)
(* call returns nothing.                                                   *)
CallDropped(c) ==
    /\ c \in Awaiting
    /\ hist' = [hist EXCEPT !.manager.call[c].at = "dropped"]
    /\ UNCHANGED << translators, config, now, openai, microsoft, task >>

InitManager == InitOpenAI(RetryTasks, {0}, {0}, {1})
NextManager ==
    \/ \E name \in Names :
          \/ add_translator(name)
          \/ translate(name)
          \/ translate_langid(name)
          \/ translate_with_langid(name)
    \/ \E c \in 1..MaxCalls :
          \/ \E outcome \in TranslatorOutcomes : TranslatorReturns(c, outcome)
          \/ CallDropped(c)
SpecManager == InitManager /\ [][NextManager]_vars

(* This step is the first poll of a call of a translate method. *)
TranslateCalled == hist'.manager.calls = hist.manager.calls + 1

(* This step is the return of call c from the await of its translator. *)
CallReturned(c) ==
    /\ hist.manager.call[c].at = "awaiting"
    /\ hist'.manager.call[c].at = "done"

(* C29: translate with a name that was never added returns at once an     *)
(* error that names it, invokes no translator, and leaves the registry as  *)
(* it was, whatever other calls are waiting for their translator; with a   *)
(* name that was added it invokes the instance registered last under that  *)
(* name, and that one only.  translate_langid and translate_with_langid do *)
(* the same.                                                               *)
C29_UnknownName ==
    [][/\ TranslateCalled =>
          LET c == hist'.manager.calls
              name == hist'.manager.call[c].asked
          IN /\ translators' = translators
             /\ hist'.manager.added = hist.manager.added
             /\ \A d \in DOMAIN hist.manager.call \ {c} :
                   hist'.manager.call[d] = hist.manager.call[d]
             /\ name \notin hist.manager.added =>
                   /\ hist'.manager.invoked = hist.manager.invoked
                   /\ hist'.manager.call[c].instance = 0
                   /\ hist'.manager.call[c].at = "done"
                   /\ hist'.manager.call[c].answer = Err(NotFound(name))
                   /\ hist'.manager.answer = Err(NotFound(name))
             /\ name \in hist.manager.added =>
                   /\ hist'.manager.invoked =
                         Append(hist.manager.invoked, translators[name])
                   /\ hist'.manager.call[c].instance = translators[name]
                   /\ hist'.manager.call[c].at = "awaiting"
       /\ ~TranslateCalled => hist'.manager.invoked = hist.manager.invoked]_vars

(* A translator is registered and a translate call waits for it; a         *)
(* translate call with another name returned the error meanwhile and       *)
(* invoked nothing.                                                        *)
C29_Witness ==
    /\ hist.manager.added = {1}
    /\ translators = << 1 >>
    /\ hist.manager.calls = 2
    /\ hist.manager.invoked = << 1 >>
    /\ hist.manager.call[1].method = "translate"
    /\ hist.manager.call[1].at = "awaiting"
    /\ hist.manager.call[2].method = "translate"
    /\ hist.manager.call[2].asked = 2
    /\ hist.manager.call[2].instance = 0
    /\ hist.manager.call[2].answer = Err(NotFound(2))
    /\ hist.manager.answer = Err(NotFound(2))

(* The number of positions of the vector v that hold the name n. *)
Occurrences(v, n) == Cardinality({i \in DOMAIN v : v[i] = n})

(* C30: a new manager lists nothing.  After any add_translator calls,      *)
(* has_translator holds exactly of the names that were added, every vector *)
(* list_translators can return holds each of them exactly once and nothing *)
(* else, and a name is registered with the instance added last under it.   *)
(* No step removes a name.                                                 *)
C30_Registry ==
    /\ [](/\ hist.manager.adds = 0 =>
                list_translators(translators) = { << >> }
          /\ \A n \in Names :
                has_translator(translators, n) <=> n \in hist.manager.added
          /\ list_translators(translators) # {}
          /\ \A v \in list_translators(translators) :
                /\ Len(v) = Cardinality(hist.manager.added)
                /\ \A n \in Names :
                      Occurrences(v, n) =
                          IF n \in hist.manager.added THEN 1 ELSE 0)
    /\ [][/\ \A n \in Names :
             has_translator(translators, n) => has_translator(translators', n)
       /\ hist'.manager.adds = hist.manager.adds + 1 =>
             \E n \in Names :
                 /\ hist'.manager.added = hist.manager.added \cup {n}
                 /\ translators'[n] = hist'.manager.adds
                 /\ \A m \in DOMAIN translators \ {n} :
                       translators'[m] = translators[m]]_vars

(* Three add_translator calls, two of them with the same name: two names   *)
(* are listed, and the name added twice has the later instance.            *)
C30_Witness ==
    /\ hist.manager.adds = 3
    /\ hist.manager.added = {1, 2}
    /\ translators = << 3, 2 >>
    /\ list_translators(translators) = { << 1, 2 >>, << 2, 1 >> }

(* The instance the latest add_translator call with this name registered:  *)
(* the calls are numbered from 1 in the order they were made.              *)
LastAdded(order, name) ==
    CHOOSE i \in DOMAIN order :
        /\ order[i] = name
        /\ \A j \in DOMAIN order : order[j] = name => j <= i

(* The calls that invoked a translator. *)
Invoking == {c \in DOMAIN hist.manager.call : hist.manager.call[c].instance # 0}

(* C31: translate with a registered name invokes one translator, the       *)
(* instance added last under that name, exactly once, and when that        *)
(* translator returns, returns what it returned, a translation or an       *)
(* error, unchanged.  translate_langid and translate_with_langid do the    *)
(* same.                                                                   *)
C31_Delegates ==
    /\ [](/\ Len(hist.manager.invoked) = Cardinality(Invoking)
          /\ \A c \in Invoking :
                /\ hist.manager.call[c].asked \in DOMAIN translators
                /\ hist.manager.call[c].at = "done" =>
                      /\ hist.manager.call[c].returned \in TranslatorOutcomes
                      /\ hist.manager.call[c].answer =
                            hist.manager.call[c].returned)
    /\ [][/\ (TranslateCalled
              /\ hist'.manager.call[hist'.manager.calls].asked
                    \in DOMAIN translators) =>
             LET c == hist'.manager.calls
                 name == hist'.manager.call[c].asked
             IN /\ Len(hist'.manager.invoked) = Len(hist.manager.invoked) + 1
                /\ hist'.manager.invoked[Len(hist'.manager.invoked)] =
                      LastAdded(hist.manager.order, name)
                /\ hist'.manager.call[c].instance =
                      LastAdded(hist.manager.order, name)
                /\ translators' = translators
          /\ \A c \in DOMAIN hist.manager.call :
                CallReturned(c) =>
                   /\ hist'.manager.call[c].returned \in TranslatorOutcomes
                   /\ hist'.manager.call[c].answer =
                         hist'.manager.call[c].returned
                   /\ hist'.manager.answer = hist'.manager.call[c].returned
                   /\ hist'.manager.call[c].instance =
                         hist.manager.call[c].instance
                   /\ hist'.manager.invoked = hist.manager.invoked
                   /\ translators' = translators]_vars

(* A name was added twice and another once; a translate call with the      *)
(* first name invoked the later of its two instances, waited for it and    *)
(* returned the network error that instance returned.                      *)
C31_Witness ==
    /\ hist.manager.order = << 1, 2, 1 >>
    /\ translators = << 3, 2 >>
    /\ hist.manager.calls = 1
    /\ hist.manager.invoked = << 3 >>
    /\ hist.manager.call[1] =
          [ method |-> "translate", asked |-> 1, instance |-> 3,
            returned |-> Err(NetworkError), answer |-> Err(NetworkError),
            at |-> "done" ]
    /\ hist.manager.answer = Err(NetworkError)

-----------------------------------------------------------------------------
(* The locks and the suspension points.                                    *)

(* The mutexes task t holds: the two of the token cache, the               *)
(* request_times of a key, the cursor.                                     *)
HeldLocks(t) ==
    {l \in {<< "cached_token", 0 >>} : token_lock = t}
    \cup {l \in {<< "token_expiry", 0 >>} : expiry_lock = t}
    \cup {<< "request_times", k >> : k \in
             {k \in DOMAIN key_trackers : key_trackers[k].times_lock = t}}
    \cup {l \in {<< "current_key_index", 0 >>} : IndexLockHolder = t}

(* The task is suspended in an HTTP request, of a translation or of an     *)
(* authentication, or in a sleep.                                          *)
InRequestOrSleep ==
    {"o_send", "m_send", "m_auth", "m_auth_sleep", "o_rl_sleep",
     "o_backoff", "m_backoff"}

(* C32 as claimed: a task suspended in an HTTP request or in a sleep holds *)
(* no lock.                                                                *)
C32_Claimed ==
    \A t \in DOMAIN task :
        task[t].pc \in InRequestOrSleep => HeldLocks(t) = {}

(* C32: a task holds no lock while it waits for a permit, while its        *)
(* translation request is outstanding, during a backoff sleep, or while it *)
(* waits in clear_cached_token; the cursor lock is held at no suspension   *)
(* point.  During an authentication request and the pause between two of   *)
(* them the task holds both locks of the token cache, and while it waits   *)
(* for the second of them it holds the first; during the sleep of          *)
(* wait_for_rate_limit it holds the request_times lock of its key.         *)
C32_LocksAtSuspension ==
    \A t \in DOMAIN task :
        /\ task[t].pc \in {"o_acquire", "m_try", "o_send", "m_send",
                           "o_backoff", "m_backoff", "m_token_lock",
                           "m_clear_token", "m_clear_expiry"} =>
              HeldLocks(t) = {}
        /\ task[t].pc \in {"m_auth", "m_auth_sleep"} =>
              HeldLocks(t) = {<< "cached_token", 0 >>, << "token_expiry", 0 >>}
        /\ task[t].pc = "m_expiry_lock" =>
              HeldLocks(t) = {<< "cached_token", 0 >>}
        /\ task[t].pc = "o_rl_sleep" =>
              HeldLocks(t) =
                  {<< "request_times", TrackerIndex(task[t].key_index) >>}
        /\ task[t].pc \in SuspensionPoints =>
              << "current_key_index", 0 >> \notin HeldLocks(t)

(* One call sleeps in wait_for_rate_limit with the lock of its key's       *)
(* window while the other call's request is outstanding.                   *)
C32_Witness ==
    \E t, u \in DOMAIN task :
        /\ task[t].pc = "o_rl_sleep"
        /\ key_trackers[TrackerIndex(task[t].key_index)].times_lock = t
        /\ task[u].pc = "o_send"
        /\ HeldLocks(u) = {}


-----------------------------------------------------------------------------
(* The cached token and its expiry as a pair.                              *)

(* The calls inside get_auth_token or clear_cached_token. *)
InTokenCall ==
    {t \in DOMAIN task :
        task[t].pc \in {"m_token_lock", "m_expiry_lock", "m_auth",
                        "m_auth_sleep", "m_clear_token", "m_clear_expiry"}}

(* C33: whenever no get_auth_token and no clear_cached_token call is in    *)
(* progress, cached_token and token_expiry are both present or both        *)
(* absent.                                                                 *)
C33_Paired ==
    InTokenCall = {} => (cached_token = None <=> token_expiry = None)


-----------------------------------------------------------------------------
(* Deadlock freedom.                                                       *)

(* The calls that have begun and not returned. *)
Unfinished ==
    {t \in DOMAIN task : task[t].pc \notin {"idle", "done", "dropped"}}

(* The next step of call t, whatever the endpoints answer. *)
CallStep(t) ==
    \/ O_BackoffDone(t)
    \/ O_Acquire(t)
    \/ O_RateLimit(t)
    \/ O_RateLimitWake(t)
    \/ \E r \in FewResponses : O_Response(t, r)
    \/ M_BackoffDone(t)
    \/ M_Acquire(t)
    \/ M_TokenLock(t)
    \/ M_ExpiryLock(t)
    \/ \E a \in FewAuthResponses : M_AuthResponse(t, a)
    \/ M_AuthSleepDone(t)
    \/ \E r \in FewResponses : M_Response(t, r)
    \/ M_ClearToken(t)
    \/ M_ClearExpiry(t)

(* The call waits for a permit or a lock that is not free. *)
Blocked(t) ==
    /\ task[t].pc \in {"o_acquire", "m_try", "o_ratelimit", "m_token_lock",
                       "m_expiry_lock", "m_clear_token", "m_clear_expiry"}
    /\ ~ENABLED CallStep(t)

(* The calls that hold what call t waits for. *)
HoldersOf(t) ==
    CASE task[t].pc = "o_acquire" -> O_Holders(TrackerIndex(task[t].key_index))
      [] task[t].pc = "m_try" -> M_Holders
      [] task[t].pc = "o_ratelimit" ->
            {u \in DOMAIN task :
                << "request_times", TrackerIndex(task[t].key_index) >>
                    \in HeldLocks(u)}
      [] task[t].pc \in {"m_token_lock", "m_clear_token"} ->
            {u \in DOMAIN task : << "cached_token", 0 >> \in HeldLocks(u)}
      [] task[t].pc \in {"m_expiry_lock", "m_clear_expiry"} ->
            {u \in DOMAIN task : << "token_expiry", 0 >> \in HeldLocks(u)}
      [] OTHER -> {}

(* C34: while a call is unfinished, some unfinished call is not blocked.   *)
(* A call blocked on a lock waits for a call that is at an HTTP request,   *)
(* in a sleep, or about to take the token_expiry lock, never for a blocked *)
(* one; a call blocked on a permit waits   *)
(* for calls that are not waiting for a permit themselves, so that no      *)
(* chain of waiting calls closes into a cycle.  A call that holds the      *)
(* cached_token lock is never kept waiting for the token_expiry lock, and  *)
(* a call inside clear_cached_token holds no lock while it waits.          *)
C34_DeadlockFree ==
    /\ Unfinished # {} => \E t \in Unfinished : ~Blocked(t)
    /\ \A t \in DOMAIN task :
          Blocked(t) =>
              /\ HoldersOf(t) # {}
              /\ t \notin HoldersOf(t)
              /\ task[t].pc \notin {"o_acquire", "m_try"} =>
                    \A u \in HoldersOf(t) :
                        /\ ~Blocked(u)
                        /\ task[u].pc \in InRequestOrSleep \cup {"m_expiry_lock"}
              /\ task[t].pc \in {"o_acquire", "m_try"} =>
                    \A u \in HoldersOf(t) :
                        /\ task[u].pc \notin {"o_acquire", "m_try"}
                        /\ Blocked(u) => \A v \in HoldersOf(u) : ~Blocked(v)
    /\ \A t \in DOMAIN task :
          /\ task[t].pc = "m_expiry_lock" => ~Blocked(t)
          /\ task[t].pc \in {"m_clear_token", "m_clear_expiry"} =>
                HeldLocks(t) = {}

(* One call is inside get_auth_token with both cache locks, at its         *)
(* authentication request; the other, holding the second permit, is        *)
(* blocked in get_auth_token on the first of them.                         *)
C34_Witness ==
    \E t, u \in DOMAIN task :
        /\ task[t].pc = "m_auth"
        /\ HeldLocks(t) = {<< "cached_token", 0 >>, << "token_expiry", 0 >>}
        /\ task[u].pc = "m_token_lock"
        /\ Blocked(u)
        /\ M_Holders = {t, u}
        /\ semaphore = 0


-----------------------------------------------------------------------------
(* Termination.                                                            *)

(* Both backends with contended permits and locks, one key with an RPM     *)
(* limit, and one retry per call.                                          *)
InitLive ==
    \/ InitOpenAI(NumTasks, {1}, {1}, 1..MaxConcurrent)
    \/ InitMicrosoft(NumTasks, 1..MaxConcurrent, {FALSE})
NextLive ==
    \/ NextOpenAI(NumTasks, {1}, FewResponses)
    \/ NextMicrosoft(NumTasks, {1}, FewResponses, FewAuthResponses)
    \/ Tick(WindowSecs, 1)
    \/ Elapse

(* Every HTTP request is answered and every sleep ends; tokio's Semaphore  *)
(* and Mutex serve their waiters in the order they arrived, so a caller    *)
(* that can acquire again and again does acquire.  A call has one next     *)
(* step wherever it is, so strong fairness of its steps taken together is  *)
(* strong fairness of each acquisition and weak fairness of the rest.      *)
FairLive ==
    /\ WF_vars(Elapse)
    /\ \A t \in 1..NumTasks : SF_vars(CallStep(t))
SpecLive == InitLive /\ [][NextLive]_vars /\ FairLive

(* C35: with at least one permit and a finite max_retries, when every      *)
(* HTTP request is answered and the scheduler is fair, every translate     *)
(* call that has begun returns, with a translation or with an error.       *)
C35_Termination ==
    \A t \in 1..NumTasks :
        (task[t].pc # "idle") ~>
            (task[t].pc = "done" /\ task[t].result.tag \in {"Ok", "Err"})

(* Both calls have returned after contending for the one permit of the     *)
(* key; one of them slept in wait_for_rate_limit, and was retried.         *)
C35_Witness ==
    /\ backend = "openai"
    /\ concurrent_limit = 1
    /\ \A t \in DOMAIN task : task[t].pc = "done"
    /\ now > WindowSecs
    /\ \E t \in DOMAIN task : Len(hist.tried[t]) = 2


-----------------------------------------------------------------------------
(* Key rotation per attempt.                                               *)

(* This step begins an attempt of call t that passes the empty-pool check: *)
(* the call comes to semaphore.acquire().                                  *)
DrawsKey(t) ==
    /\ backend = "openai"
    /\ task[t].pc \in {"idle", "o_backoff"}
    /\ task'[t].pc = "o_acquire"

(* The places of an attempt that has drawn its key. *)
InAttempt == {"o_acquire", "o_ratelimit", "o_rl_sleep", "o_send"}

(* C36: each attempt of the OpenAI backend draws the key under the cursor  *)
(* and advances the cursor by exactly one, modulo the pool, before it      *)
(* waits for a permit, so the keys drawn are the pool in order, one per    *)
(* attempt, whichever calls the attempts belong to; a retry of a call      *)
(* draws the key after the one of its previous attempt when no other call  *)
(* has drawn in between.  The attempt keeps the key it drew: it takes the  *)
(* permit of that key only, and waits for it even when that key has no     *)
(* free permit and another key has all of its own.                         *)
C36_RotationPerAttempt ==
    /\ [](backend = "openai" =>
            /\ \A i \in DOMAIN hist.key_log :
                  hist.key_log[i] = (i - 1) % api_keys
            /\ current_key_index = Len(hist.key_log) % api_keys
            /\ \A t \in DOMAIN task :
                  (/\ task[t].pc = "o_acquire"
                   /\ Tracker(t).semaphore = 0) => ~ENABLED CallStep(t))
    /\ [][\A t \in DOMAIN task :
            /\ DrawsKey(t) =>
                  /\ task'[t].key_index = current_key_index
                  /\ current_key_index' = (current_key_index + 1) % api_keys
                  /\ hist'.key_log = Append(hist.key_log, current_key_index)
                  /\ key_trackers' = key_trackers
                  /\ (/\ task[t].pc = "o_backoff"
                      /\ \A u \in DOMAIN task \ {t} : task[u].pc = "idle") =>
                        task'[t].key_index = (task[t].key_index + 1) % api_keys
            /\ (backend = "openai" /\ ~DrawsKey(t)) =>
                  Len(hist'.key_log) = Len(hist.key_log)
                  \/ \E u \in DOMAIN task \ {t} : DrawsKey(u)
            /\ (task[t].pc \in InAttempt /\ task'[t].pc \in InAttempt) =>
                  task'[t].key_index = task[t].key_index
            /\ (task[t].pc = "o_acquire" /\ task'[t].pc # "o_acquire") =>
                  /\ key_trackers[TrackerIndex(task[t].key_index)].semaphore > 0
                  /\ \A k \in DOMAIN key_trackers :
                        key_trackers'[k].semaphore =
                            IF k = TrackerIndex(task[t].key_index)
                            THEN key_trackers[k].semaphore - 1
                            ELSE key_trackers[k].semaphore]_vars

(* A retry drew the key another call's attempt holds the only permit of,   *)
(* and waits for it while the other key is idle with its permit free.      *)
C36_Witness ==
    \E t, u \in DOMAIN task :
        /\ t # u
        /\ concurrent_limit = 1
        /\ task[t].pc = "o_acquire"
        /\ Len(hist.tried[t]) = 1
        /\ task[u].pc \in {"o_ratelimit", "o_rl_sleep", "o_send"}
        /\ task[u].key_index = task[t].key_index
        /\ Tracker(t).semaphore = 0
        /\ \E k \in DOMAIN key_trackers :
              /\ k # TrackerIndex(task[t].key_index)
              /\ key_trackers[k].semaphore = concurrent_limit
        /\ ~ENABLED CallStep(t)

-----------------------------------------------------------------------------
(* The order of a key's recorded instants.                                 *)

(* The sequence never steps down. *)
NonDecreasing(times) ==
    \A i, j \in DOMAIN times : i < j => times[i] <= times[j]

(* C37: in every reachable state the request_times of each key are in     *)
(* non-decreasing order, whatever the interleaving of the callers and      *)
(* their sleeps, so the first element, which wait_for_rate_limit takes as  *)
(* the oldest, is no later than any other.                                 *)
C37_Ordered ==
    \A k \in DOMAIN key_trackers :
        key_trackers[k].request_times # None =>
            LET times == key_trackers[k].request_times.value
            IN /\ NonDecreasing(times)
               /\ \A i \in DOMAIN times : Head(times) <= times[i]

(* With one request a minute, a caller that arrived half a minute after    *)
(* the first admission slept, and on waking recorded the instant it had    *)
(* read before the sleep behind the first entry.                           *)
C37_Witness ==
    /\ rpm_limit = 1
    /\ key_trackers[1].request_times = Some(<< 0, RpmStep >>)
    /\ hist.granted[1] = << 0, WindowSecs >>
    /\ key_trackers[1].times_lock = 0


-----------------------------------------------------------------------------
(* A failure of get_auth_token inside an attempt.                          *)

(* This step sends an authentication request of call t. *)
SendsAuthRequest(t) == hist'.auth[t].requests > hist.auth[t].requests

(* C38: get_auth_token fails an attempt with AuthenticationError or with   *)
(* NetworkError and with nothing else.  AuthenticationError ends the       *)
(* translate call at once with that error; NetworkError is one failed      *)
(* attempt, followed by the backoff and the next attempt while retries     *)
(* remain and by MaxRetriesExceeded when none does.  Either way the step   *)
(* releases the permit.  Authentication requests are sent only inside an   *)
(* attempt that holds the permit, at most 3 per attempt, so a call sends   *)
(* at most 3 * (max_retries + 1) of them.                                  *)
C38_TokenFailure ==
    /\ [](\A t \in DOMAIN task :
            (backend = "microsoft" /\ task[t].pc # "idle") =>
                /\ hist.auth[t].requests <= AuthAttempts
                /\ Len(hist.tried[t]) <= task[t].max_retries + 1
                /\ AuthAttempts * Len(hist.tried[t]) + hist.auth[t].requests
                      <= AuthAttempts * (task[t].max_retries + 1))
    /\ [][\A t \in DOMAIN task :
            /\ RefreshFailsWith(t, AuthenticationError) =>
                  /\ task'[t].pc = "done"
                  /\ task'[t].result = Err(AuthenticationError)
                  /\ hist'.delays[t] = hist.delays[t]
                  /\ semaphore' = semaphore + 1
            /\ RefreshFailsWith(t, NetworkError) =>
                  /\ semaphore' = semaphore + 1
                  /\ IF Len(hist.tried[t]) < task[t].max_retries
                     THEN /\ task'[t].pc = "m_backoff"
                          /\ Len(hist'.delays[t]) = Len(hist.delays[t]) + 1
                     ELSE /\ task'[t].pc = "done"
                          /\ task'[t].result =
                                Err(MaxRetriesExceeded(task[t].max_retries + 1,
                                                       ErrorsOf(hist'.tried[t])))
            /\ (/\ task[t].pc \in {"m_auth", "m_auth_sleep"}
                /\ Len(hist'.tried[t]) = Len(hist.tried[t]) + 1) =>
                  \/ RefreshFailsWith(t, AuthenticationError)
                  \/ RefreshFailsWith(t, NetworkError)
            /\ SendsAuthRequest(t) =>
                  /\ task[t].pc \in {"m_expiry_lock", "m_auth_sleep"}
                  /\ task'[t].pc = "m_auth"
                  /\ M_HoldsPermit(t)
                  /\ hist'.auth[t].requests = hist.auth[t].requests + 1
                  /\ hist'.tried[t] = hist.tried[t]]_vars

(* A call with one retry has returned MaxRetriesExceeded after two         *)
(* attempts that each ended inside get_auth_token with NetworkError, three *)
(* authentication requests each, and the permit is free.                   *)
C38_Witness ==
    \E t \in DOMAIN task :
        /\ backend = "microsoft"
        /\ task[t].pc = "done"
        /\ task[t].max_retries = 1
        /\ hist.tried[t] = << Attempt(NoResponse, Err(NetworkError)),
                              Attempt(NoResponse, Err(NetworkError)) >>
        /\ task[t].result =
              Err(MaxRetriesExceeded(2, << NetworkError, NetworkError >>))
        /\ semaphore = concurrent_limit

-----------------------------------------------------------------------------
(* MicrosoftTranslator::translate_batch_to_strings.                        *)

MaxTexts == 3

(* One MicrosoftTranslation of a response: the translations of one text,   *)
(* none or the one for the target language.                                *)
Items(i) ==
    { [translations |-> << >>],
      [translations |-> << [text |-> Translation(i)] >>] }

(* The answers to a request for n texts: one item per text, in the order   *)
(* of the texts; a server error; 401.                                      *)
StringsResponses(n) ==
    { [type |-> "status", status |-> 200, body |-> "translation",
       items |-> items] :
         items \in {v \in [1..n -> UNION {Items(i) : i \in 1..n}] :
                        \A i \in 1..n : v[i] \in Items(i)} }
    \cup { [type |-> "status", status |-> 503],
           [type |-> "status", status |-> 401] }

RECURSIVE first_translations(_)
(* results.into_iter().filter_map(|res| res.translations.into_iter()       *)
(* .next()).map(|trans_result| trans_result.text).collect()                *)
first_translations(results) ==
    IF results = << >> THEN << >>
    ELSE IF Head(results).translations = << >>
         THEN first_translations(Tail(results))
         ELSE << Head(results).translations[1].text >>
                  \o first_translations(Tail(results))

(* translate_batch has returned: its error is returned by `?`, its items   *)
(* are turned into strings.                                                *)
translate_batch_to_strings(t) ==
    /\ task[t].pc = "done"
    /\ hist.strings.output = Pending
    /\ hist' = [hist EXCEPT !.strings.output =
                    IF task[t].result.tag = "Ok"
                    THEN Ok(first_translations(task[t].result.value))
                    ELSE task[t].result]
    /\ UNCHANGED << translators, config, now, openai, microsoft, task >>

(* One call of translate_batch_to_strings with 1..MaxTexts texts. *)
InitStrings ==
    /\ backend = "microsoft"
    /\ api_keys = 0
    /\ rpm_limit = 0
    /\ concurrent_limit = 1
    /\ api_key \in BOOLEAN
    /\ now = 0
    /\ current_key_index = 0
    /\ key_trackers = << >>
    /\ semaphore = concurrent_limit
    /\ cached_token = None
    /\ token_expiry = None
    /\ token_lock = 0
    /\ expiry_lock = 0
    /\ task = [t \in 1..RetryTasks |-> NewTask]
    /\ translators = NoTranslators
    /\ \E n \in 1..MaxTexts :
          hist = [NewHist(RetryTasks, 0) EXCEPT !.strings.texts = n]
NextStrings ==
    \/ NextMicrosoft(RetryTasks, {1}, StringsResponses(hist.strings.texts),
                     FewAuthResponses)
    \/ \E t \in 1..RetryTasks : translate_batch_to_strings(t)
    \/ Elapse
SpecStrings == InitStrings /\ [][NextStrings]_vars

(* C39: when translate_batch_to_strings returns Ok, it returns one string  *)
(* per input text, the i-th being the translation of the i-th text.        *)
C39_OnePerText ==
    hist.strings.output.tag = "Ok" =>
        /\ Len(hist.strings.output.value) = hist.strings.texts
        /\ \A i \in 1..hist.strings.texts :
              hist.strings.output.value[i] = Translation(i)

-----------------------------------------------------------------------------
(* The backoff delay in 64-bit unsigned arithmetic.                        *)

MaxAttempt == 66
U64Bits == 64

(* A u64 of the form m * 2^e with m below 2^7, which is every value the    *)
(* computation of the delay can take; m = 0 is zero.                       *)
U64(m, e) == [m |-> m, e |-> IF m = 0 THEN 0 ELSE e]

RECURSIVE BitLen(_)
(* The number of bits of a natural number. *)
BitLen(n) == IF n = 0 THEN 0 ELSE 1 + BitLen(n \div 2)

(* The arithmetic panicked: `attempt to multiply with overflow`. *)
Panic == [tag |-> "Panic"]

(* 2u64.pow(n): 2^n when it fits; otherwise the build with overflow checks *)
(* panics and the build without them returns the wrapped value, which is   *)
(* zero.                                                                   *)
pow2_u64(n) ==
    IF n < U64Bits THEN {Ok(U64(1, n))} ELSE {Panic, Ok(U64(0, 0))}

(* c * x for a u64 x = 2^e or 0: the product when it fits in 64 bits;      *)
(* otherwise a panic or the product modulo 2^64.                           *)
mul_u64(c, x) ==
    IF x.m = 0 THEN {Ok(U64(0, 0))}
    ELSE IF BitLen(c) + x.e <= U64Bits THEN {Ok(U64(c, x.e))}
    ELSE {Panic, Ok(U64(c % (2 ^ (U64Bits - x.e)), x.e))}

(* 100 * 2u64.pow(attempt - 1), in milliseconds: what the builds can make  *)
(* of it.                                                                  *)
backoff_millis(attempt) ==
    UNION { IF p = Panic THEN {Panic} ELSE mul_u64(BaseDelayMs, p.value) :
              p \in pow2_u64(attempt - 1) }

(* a < b for two u64 of this form. *)
LessU64(a, b) ==
    IF b.m = 0 THEN FALSE
    ELSE IF a.m = 0 THEN TRUE
    ELSE IF a.e >= b.e + 7 THEN FALSE
    ELSE IF b.e >= a.e + 7 THEN TRUE
    ELSE LET low == IF a.e < b.e THEN a.e ELSE b.e
         IN a.m * 2 ^ (a.e - low) < b.m * 2 ^ (b.e - low)

(* TranslateOptions::max_retries: the builder stores the value. *)
max_retries(n) ==
    /\ hist.backoff.at = "options"
    /\ hist.backoff.attempt = 0
    /\ n # hist.backoff.max_retries
    /\ hist' = [hist EXCEPT !.backoff.max_retries = n]
    /\ UNCHANGED << translators, config, now, openai, microsoft, task >>

(* The next iteration of `for attempt in 0..=options.max_retries` after a  *)
(* retryable failure: the delay is computed, and slept unless the          *)
(* computation panicked.                                                   *)
B_Retry ==
    /\ hist.backoff.at \in {"options", "loop"}
    /\ InRange(hist.backoff.attempt + 1, hist.backoff.max_retries)
    /\ \E d \in backoff_millis(hist.backoff.attempt + 1) :
          hist' = [hist EXCEPT
             !.backoff.attempt = @ + 1,
             !.backoff.previous = hist.backoff.delay,
             !.backoff.delay = d,
             !.backoff.at = IF d = Panic THEN "panicked" ELSE "loop"]
    /\ UNCHANGED << translators, config, now, openai, microsoft, task >>

(* The range is exhausted: MaxRetriesExceeded is returned. *)
B_Exceeded ==
    /\ hist.backoff.at \in {"options", "loop"}
    /\ ~InRange(hist.backoff.attempt + 1, hist.backoff.max_retries)
    /\ hist' = [hist EXCEPT !.backoff.at = "exceeded"]
    /\ UNCHANGED << translators, config, now, openai, microsoft, task >>

InitBackoff == InitOpenAI(RetryTasks, {1}, {0}, {1})
NextBackoff ==
    \/ \E n \in 0..MaxAttempt : max_retries(n)
    \/ B_Retry
    \/ B_Exceeded
SpecBackoff == InitBackoff /\ [][NextBackoff]_vars

(* C40: for every max_retries and every retry k from 1 to max_retries the  *)
(* delay 100 * 2^(k-1) is computed without overflow, so it is exactly that *)
(* number of milliseconds and greater than the delay of the retry before.  *)
C40_NoOverflow ==
    hist.backoff.attempt >= 1 =>
        /\ hist.backoff.delay = Ok(U64(BaseDelayMs, hist.backoff.attempt - 1))
        /\ hist.backoff.previous # Pending =>
              /\ hist.backoff.previous.tag = "Ok"
              /\ LessU64(hist.backoff.previous.value, hist.backoff.delay.value)

=============================================================================
